---- MODULE Spec2Model ----
(***************************************************************************)
(* A model of vmr2tei: the witness-siglum grammar (common.py), the witness *)
(* registry (collation.py, witness.py), the reading model and its          *)
(* rendering (reading.py) and the variation unit (variation_unit.py).      *)
(* Text is kept as TLA+ strings; Python's str and re operations are        *)
(* modelled character by character by the operators of the first section.  *)
(***************************************************************************)
EXTENDS Integers, Sequences, FiniteSets, TLC

VARIABLES
    pc,                      \* position of the run
    op,                      \* grammar runs: the function applied last
    wit_str,                 \* grammar runs: the argument string
    result,                  \* grammar runs: the value returned
    passes,                  \* grammar runs: how often cleanup has been applied
    segment_reading,         \* reading runs: the segmentReading element given to parse_xml
    singular_to_subreading,  \* the policy switch
    reading,                 \* reading runs: the fields of the Reading object
    tei,                     \* reading runs: the element to_xml returns
    loc,                     \* unit runs: the loc argument of VariationUnit
    app_from,                \* unit runs: the app_from argument
    app_to,                  \* unit runs: the app_to argument
    unit,                    \* unit runs: the fields of the VariationUnit object
    callee,                  \* loop runs: the function whose loop is run
    arg_siglum,              \* loop runs: the argument siglum
    arg_regex,               \* loop runs: the name of the argument regex
    base_manuscript_siglum,  \* loop runs: the local of get_base_manuscript_siglum
    old_string,              \* loop runs: the local of split_versional_witnesses
    extracted_prefixes,      \* loop runs: the local of split_versional_witnesses
    iterations,              \* loop runs: the passes through the loop body that strip
    returned,                \* loop runs: the value returned
    vmr,                     \* collation runs: the witnesses attributes as downloaded
    xml_tree,                \* collation runs: the witnesses attributes of the tree xml
    seg,                     \* collation runs: the segment the loop is at
    rdg,                     \* collation runs: the segmentReading the loop is at
    covered_manuscripts_set, \* collation runs: the covered set of the segment
    witnesses,               \* collation runs: Collation.witnesses
    witness_inds_by_id,      \* collation runs: Collation.witness_inds_by_id
    scan_wits,               \* collation runs: the sigla of the reading still to scan
    covered_witnesses,       \* collation runs: the local of Collation.get_byz_witnesses
    segment_byz_witnesses,   \* collation runs: the local byz_witnesses of parse_segments
    err                      \* the exception raised, "" when none

grammar_vars == <<op, wit_str, result, passes>>
reading_vars == <<segment_reading, singular_to_subreading, reading, tei>>
unit_vars == <<loc, app_from, app_to, unit>>
loop_vars ==
    <<callee, arg_siglum, arg_regex, base_manuscript_siglum, old_string,
      extracted_prefixes, iterations, returned>>
collation_vars ==
    <<vmr, xml_tree, seg, rdg, covered_manuscripts_set, witnesses,
      witness_inds_by_id, scan_wits, covered_witnesses, segment_byz_witnesses>>
vars == <<pc, grammar_vars, reading_vars, unit_vars, loop_vars, collation_vars, err>>

\* an optional value: Python's None, or a value
None == <<>>
Some(x) == <<x>>

(***************************************************************************)
(* Python str operations                                                   *)
(***************************************************************************)
Ch(s, i) == SubSeq(s, i, i)

Digits == {"0", "1", "2", "3", "4", "5", "6", "7", "8", "9"}

NonZeroDigits == Digits \ {"0"}

IsDigitAt(s, i) == i <= Len(s) /\ Ch(s, i) \in Digits

\* s[i:].startswith(p), 1-based
StartsWithAt(s, p, i) ==
    /\ i + Len(p) - 1 <= Len(s)
    /\ SubSeq(s, i, i + Len(p) - 1) = p

StartsWith(s, p) == StartsWithAt(s, p, 1)

EndsWith(s, p) == Len(p) <= Len(s) /\ SubSeq(s, Len(s) - Len(p) + 1, Len(s)) = p

\* p in s
Contains(s, p) == \E i \in 1..(Len(s) + 1) : StartsWithAt(s, p, i)

\* str.replace(old, new) from position i on: leftmost, non-overlapping, one pass
RECURSIVE ReplaceFrom(_, _, _, _)
ReplaceFrom(s, old, new, i) ==
    IF i > Len(s) THEN ""
    ELSE IF StartsWithAt(s, old, i)
         THEN new \o ReplaceFrom(s, old, new, i + Len(old))
         ELSE Ch(s, i) \o ReplaceFrom(s, old, new, i + 1)

\* str.replace with an empty pattern puts new before every character and at the end
RECURSIVE InterleaveFrom(_, _, _)
InterleaveFrom(s, new, i) ==
    IF i > Len(s) THEN new
    ELSE new \o Ch(s, i) \o InterleaveFrom(s, new, i + 1)

Replace(s, old, new) ==
    IF old = "" THEN InterleaveFrom(s, new, 1) ELSE ReplaceFrom(s, old, new, 1)

\* index of the first occurrence of the one-character string c at or after i, 0 if none
RECURSIVE IndexFrom(_, _, _)
IndexFrom(s, c, i) ==
    IF i > Len(s) THEN 0
    ELSE IF Ch(s, i) = c THEN i ELSE IndexFrom(s, c, i + 1)

\* str.split(sep) for a one-character sep: empty fields are kept
RECURSIVE SplitOn(_, _)
SplitOn(s, sep) ==
    LET k == IndexFrom(s, sep, 1)
    IN  IF k = 0 THEN <<s>>
        ELSE <<SubSeq(s, 1, k - 1)>> \o SplitOn(SubSeq(s, k + 1, Len(s)), sep)

\* str.split(): fields between runs of spaces, no empty fields
FieldStarts(s) ==
    {i \in 1..Len(s) : Ch(s, i) # " " /\ (i = 1 \/ Ch(s, i - 1) = " ")}

FieldEnds(s) ==
    {i \in 1..Len(s) : Ch(s, i) # " " /\ (i = Len(s) \/ Ch(s, i + 1) = " ")}

\* the members of a set of numbers, each paired with its place in ascending order
Ranked(S) == {<<Cardinality({j \in S : j <= i}), i>> : i \in S}

Split(s) ==
    LET starts == Ranked(FieldStarts(s))
        ends == Ranked(FieldEnds(s))
    IN  [k \in 1..Cardinality(starts) |->
            SubSeq(s, (CHOOSE p \in starts : p[1] = k)[2], (CHOOSE p \in ends : p[1] = k)[2])]

\* sep.join(seq)
RECURSIVE Join(_, _)
Join(seq, sep) ==
    IF Len(seq) = 0 THEN ""
    ELSE IF Len(seq) = 1 THEN seq[1]
    ELSE seq[1] \o sep \o Join(Tail(seq), sep)

Range(seq) == {seq[i] : i \in 1..Len(seq)}

\* the end of the run of digits that starts at i (i - 1 when s[i] is no digit)
RECURSIVE DigitRunEnd(_, _)
DigitRunEnd(s, i) ==
    IF IsDigitAt(s, i) THEN DigitRunEnd(s, i + 1) ELSE i - 1

\* int(s) for a string of decimal digits
RECURSIVE ToInt(_)
ToInt(s) ==
    IF s = "" THEN 0
    ELSE 10 * ToInt(SubSeq(s, 1, Len(s) - 1))
         + (CHOOSE d \in 0..9 : Ch("0123456789", d + 1) = Ch(s, Len(s)))

(***************************************************************************)
(* Settings and regular expressions of common.py                           *)
(***************************************************************************)
version_prefixes == <<"L", "S", "K", "Ä", "A", "G", "Sl">>

omission_string == "om."
overlap_label == "zu"
ambiguous_label == "zw"
lac_label == "zz"

\* ^P\d+
papyrus_pattern(s) == StartsWith(s, "P") /\ IsDigitAt(s, 2)

\* ^0\d+
majuscule_pattern(s) == StartsWith(s, "0") /\ IsDigitAt(s, 2)

\* ^[1-9]\d*
minuscule_pattern(s) == Len(s) >= 1 /\ Ch(s, 1) \in NonZeroDigits

\* ^L\d+
lectionary_pattern(s) == StartsWith(s, "L") /\ IsDigitAt(s, 2)

\* a pattern that every siglum matches
manuscript_witness_pattern_Any(s) == TRUE

\* ^(P|L|L:)?\d+
manuscript_witness_pattern(s) ==
    \/ IsDigitAt(s, 1)
    \/ StartsWith(s, "P") /\ IsDigitAt(s, 2)
    \/ StartsWith(s, "L") /\ IsDigitAt(s, 2)
    \/ StartsWith(s, "L:") /\ IsDigitAt(s, 3)

\* [CAK]\d* found anywhere
corrector_pattern(s) == \E i \in 1..Len(s) : Ch(s, i) \in {"C", "A", "K"}

\* ^(L|S|K|Ä|A|G|Sl)(:|>|$)
version_start_pattern(s) ==
    \E i \in 1..Len(version_prefixes) :
        LET p == version_prefixes[i]
        IN  \/ s = p
            \/ StartsWith(s, p \o ":")
            \/ StartsWith(s, p \o ">")

\* the suffix patterns: the text matched by regex.search(s), "" for no match.
\* The patterns end in $, and the leftmost start that matches wins.
LetterAndDigits(t, letters) ==
    Len(t) >= 1 /\ Ch(t, 1) \in letters /\ DigitRunEnd(t, 2) = Len(t)

\* (\*|T|V|f\d*)$
IsIgnoredSuffix(t) == t \in {"*", "T", "V"} \/ LetterAndDigits(t, {"f"})

\* (\*|T|V|f\d*|C\d*|A\d*|K\d*|L\d+)$
IsManuscriptSuffix(t) ==
    \/ t \in {"*", "T", "V"}
    \/ LetterAndDigits(t, {"f", "C", "A", "K"})
    \/ Len(t) >= 2 /\ LetterAndDigits(t, {"L"})

\* regex.search(s).group() for the suffix pattern of the given name
SuffixMatch(regex, s) ==
    LET starts == {i \in 1..Len(s) :
                      IF regex = "ignored" THEN IsIgnoredSuffix(SubSeq(s, i, Len(s)))
                      ELSE IsManuscriptSuffix(SubSeq(s, i, Len(s)))}
    IN  IF starts = {} THEN ""
        ELSE SubSeq(s, CHOOSE i \in starts : \A j \in starts : i <= j, Len(s))

ignored_manuscript_suffix_pattern(s) == SuffixMatch("ignored", s)

all_manuscript_suffix_pattern(s) == SuffixMatch("all", s)

\* the first of the alternatives alts, in the order given, that s has at i; "" when none
RECURSIVE FirstAlt(_, _, _)
FirstAlt(s, i, alts) ==
    IF Len(alts) = 0 THEN ""
    ELSE IF StartsWithAt(s, alts[1], i) THEN alts[1]
    ELSE FirstAlt(s, i, Tail(alts))

\* (mss|ms)* at position i: the end of the greedy repetition
RECURSIVE MsRunEnd(_, _)
MsRunEnd(s, i) ==
    IF StartsWithAt(s, "mss", i) THEN MsRunEnd(s, i + 3)
    ELSE IF StartsWithAt(s, "ms", i) THEN MsRunEnd(s, i + 2)
    ELSE i - 1

\* ^(V|AU|HIL|QU|\d+) : the matched text, "" for no match
latin_version_pattern(s) ==
    LET a == FirstAlt(s, 1, <<"V", "AU", "HIL", "QU">>)
    IN  IF a # "" THEN a ELSE SubSeq(s, 1, DigitRunEnd(s, 1))

\* ^(A|P|HT|HM|HA|H)(mss|ms)*
syriac_version_pattern(s) ==
    LET a == FirstAlt(s, 1, <<"A", "P", "HT", "HM", "HA", "H">>)
    IN  IF a = "" THEN "" ELSE SubSeq(s, 1, MsRunEnd(s, Len(a) + 1))

\* ^(S|B|M|F)(mss|ms)*
coptic_version_pattern(s) ==
    LET a == FirstAlt(s, 1, <<"S", "B", "M", "F">>)
    IN  IF a = "" THEN "" ELSE SubSeq(s, 1, MsRunEnd(s, Len(a) + 1))

\* ^(Ch|E|M|O|Si|St|V)
slavonic_version_pattern(s) ==
    FirstAlt(s, 1, <<"Ch", "E", "M", "O", "Si", "St", "V">>)

(***************************************************************************)
(* Siglum grammar: the functions of common.py                              *)
(***************************************************************************)
\* common.get_base_manuscript_siglum: strip suffixes matched by regex until none is left
RECURSIVE get_base_manuscript_siglum(_, _)
get_base_manuscript_siglum(siglum, regex) ==
    LET suffix == SuffixMatch(regex, siglum)
    IN  IF suffix = "" THEN siglum
        ELSE get_base_manuscript_siglum(SubSeq(siglum, 1, Len(siglum) - Len(suffix)), regex)

\* the four patterns normalize_versional_sigla chooses from; any other name is None
VersionalRegexNames == {"L", "S", "K", "Sl"}

VersionalMatch(name, s) ==
    CASE name = "L" -> latin_version_pattern(s)
      [] name = "S" -> syriac_version_pattern(s)
      [] name = "K" -> coptic_version_pattern(s)
      [] name = "Sl" -> slavonic_version_pattern(s)

\* common.split_versional_witnesses, the regex given by the name of its version
RECURSIVE split_versional_witnesses(_, _)
split_versional_witnesses(siglum, name) ==
    LET prefix == VersionalMatch(name, siglum)
    IN  IF prefix = "" THEN <<>>
        ELSE <<prefix>> \o split_versional_witnesses(
                 SubSeq(siglum, Len(prefix) + 1, Len(siglum)), name)

\* the end of the run of non-space characters that starts at i
RECURSIVE NonSpaceRunEnd(_, _)
NonSpaceRunEnd(s, i) ==
    IF i <= Len(s) /\ Ch(s, i) # " " THEN NonSpaceRunEnd(s, i + 1) ELSE i - 1

\* the first parenthesis at or after i, 0 if none
RECURSIVE NextParen(_, _)
NextParen(s, i) ==
    IF i > Len(s) THEN 0
    ELSE IF Ch(s, i) \in {"(", ")"} THEN i ELSE NextParen(s, i + 1)

\* "(" at j opens a group [^\(\)]* closed by ")"
ClosesAt(s, j) ==
    LET k == NextParen(s, j + 1)
    IN  IF Ch(s, j) = "(" /\ k # 0 /\ Ch(s, k) = ")" THEN k ELSE 0

\* (\S+)\(([^\(\)]*)\) matched at start i: <<group 1, group 2, end>>, <<>> for no match.
\* \S+ is greedy, so the last "(" of the run that opens a closed group is taken.
witness_with_parentheses_pattern(s, i) ==
    LET opens == {j \in (i + 1)..NonSpaceRunEnd(s, i) : ClosesAt(s, j) # 0}
    IN  IF opens = {} THEN <<>>
        ELSE LET j == CHOOSE x \in opens : \A y \in opens : y <= x
             IN  <<SubSeq(s, i, j - 1), SubSeq(s, j + 1, ClosesAt(s, j) - 1), ClosesAt(s, j)>>

\* re.findall: the non-overlapping matches, left to right
RECURSIVE FindAllParentheses(_, _)
FindAllParentheses(s, i) ==
    IF i > Len(s) THEN <<>>
    ELSE LET m == witness_with_parentheses_pattern(s, i)
         IN  IF m = <<>> THEN FindAllParentheses(s, i + 1)
             ELSE <<m>> \o FindAllParentheses(s, m[3] + 1)

\* the body of the loop over the matches
ExpandMatch(expanded_wit_str, match) ==
    LET wit == match[1]
        suffixes == SplitOn(Replace(match[2], " ", ""), ",")
        expanded_wits == [k \in 1..Len(suffixes) |-> wit \o suffixes[k]]
    IN  Replace(expanded_wit_str, match[1] \o "(" \o match[2] \o ")",
                Join(expanded_wits, " "))

RECURSIVE ExpandMatches(_, _)
ExpandMatches(expanded_wit_str, matches) ==
    IF Len(matches) = 0 THEN expanded_wit_str
    ELSE ExpandMatches(ExpandMatch(expanded_wit_str, matches[1]), Tail(matches))

\* common.expand_parenthetical_suffixes
expand_parenthetical_suffixes(s) ==
    ExpandMatches(s, FindAllParentheses(s, 1))

\* the loop of normalize_versional_sigla over the tokens wits, from the state
\* (version_prefix, old_versional_sigla, normalized_versional_sigla);
\* raised: split_versional_witnesses was called with regex None
RECURSIVE NormalizeScan(_, _, _, _)
NormalizeScan(wits, version_prefix, old, new) ==
    IF Len(wits) = 0 THEN [old |-> old, new |-> new, raised |-> FALSE]
    ELSE LET wit == wits[1]
             rest == Tail(wits)
         IN  IF version_prefix = "" /\ ~version_start_pattern(wit)
             THEN NormalizeScan(rest, version_prefix, old, new)
             ELSE IF version_start_pattern(wit)
             THEN IF Contains(wit, ":")
                  THEN LET prefix == SplitOn(wit, ":")[1]
                           version_suffix == SplitOn(wit, ":")[2]
                       IN  IF prefix \notin VersionalRegexNames
                           THEN [old |-> old, new |-> new, raised |-> TRUE]
                           ELSE LET old_sigla == split_versional_witnesses(version_suffix, prefix)
                                    new_sigla == [k \in 1..Len(old_sigla) |->
                                                     prefix \o ":" \o old_sigla[k]]
                                IN  NormalizeScan(rest, prefix, Append(old, wit),
                                                  Append(new, Join(new_sigla, " ")))
                  ELSE NormalizeScan(rest, wit, Append(old, wit),
                                     Append(new, wit \o ":" \o wit))
             ELSE NormalizeScan(rest, version_prefix, Append(old, wit),
                                Append(new, version_prefix \o ":" \o wit))

\* normalize_versional_sigla raises AttributeError on s
normalize_versional_sigla_raises(s) ==
    NormalizeScan(Split(s), "", <<>>, <<>>).raised

\* common.normalize_versional_sigla (where it returns)
normalize_versional_sigla(s) ==
    LET scan == NormalizeScan(Split(s), "", <<>>, <<>>)
    IN  Replace(s, Join(scan.old, " "), Join(scan.new, " "))

\* cleanup_witness_lists, the string steps up to the parenthetical expansion
CleanupBeforeVersions(witnesses_string) ==
    LET s1 == Replace(witnesses_string, ".", " ")
        s2 == Replace(Replace(s1, "[", ""), "]", "")
        s3 == Replace(s2, ">", "")
        s4 == Replace(s3, ": ", ":")
        s5 == Replace(s4, "  ", " ")
        s6 == Replace(s5, " &nbsp;", "")
    IN  expand_parenthetical_suffixes(s6)

cleanup_raises(witnesses_string) ==
    normalize_versional_sigla_raises(CleanupBeforeVersions(witnesses_string))

\* cleanup_witness_lists, the steps applied to one witnesses attribute
cleanup(witnesses_string) ==
    normalize_versional_sigla(CleanupBeforeVersions(witnesses_string))

(***************************************************************************)
(* Reading model: reading.py                                               *)
(***************************************************************************)
LowerCase == {Ch("abcdefghijklmnopqrstuvwxyz", i) : i \in 1..26}

\* the end of the trailing run of digits of s, from position i backwards
RECURSIVE BeforeTrailingDigits(_, _)
BeforeTrailingDigits(s, i) ==
    IF i >= 1 /\ Ch(s, i) \in Digits THEN BeforeTrailingDigits(s, i - 1) ELSE i

\* ^[a-z]+X\d*$ for the letter X
LabelShape(s, X) ==
    LET k == BeforeTrailingDigits(s, Len(s))
    IN  /\ k >= 2
        /\ Ch(s, k) = X
        /\ \A i \in 1..k : Ch(s, i) \in LowerCase

\* ^[a-z]+f\d*$
defective_reading_label_pattern(s) == LabelShape(s, "f")

\* ^[a-z]+o\d*$
orthographic_reading_label_pattern(s) == LabelShape(s, "o")

\* str.strip()
RECURSIVE Strip(_)
Strip(s) ==
    IF s = "" THEN s
    ELSE IF Ch(s, 1) = " " THEN Strip(SubSeq(s, 2, Len(s)))
    ELSE IF Ch(s, Len(s)) = " " THEN Strip(SubSeq(s, 1, Len(s) - 1))
    ELSE s

\* Reading.__init__ with its default arguments
NewReading == [id |-> None, type |-> None, wits |-> <<>>, targets |-> <<>>, text |-> None]

\* xml.get(name) is not None
HasAttr(xml, name) == name \in DOMAIN xml.attrs

\* the marker parse_xml removes from labels: the source literal is the three
\* characters U+00E2 U+2122 U+00A6; "^" stands for U+2122, which a TLA+ string
\* cannot hold
diamond == "â^¦"

\* parse_xml line 51: the label without diamonds and surrounding whitespace
ReadingId(xml) == Strip(Replace(xml.attrs["label"], diamond, ""))

\* a parse_xml that knows the two label shapes only
LabelType_ShapesOnly(label) ==
    IF defective_reading_label_pattern(label) THEN Some("defective")
    ELSE IF orthographic_reading_label_pattern(label) THEN Some("orthographic")
    ELSE None

\* parse_xml lines 53-63: the type of the reading from its label
LabelType(label) ==
    IF defective_reading_label_pattern(label) THEN Some("defective")
    ELSE IF orthographic_reading_label_pattern(label) THEN Some("orthographic")
    ELSE IF label = overlap_label THEN Some("overlap")
    ELSE IF label = ambiguous_label THEN Some("ambiguous")
    ELSE IF label = lac_label THEN Some("lac")
    ELSE None

\* a parse_xml that splits the reading attribute without removing the markers
ParseTargets_KeepMarkers(reading_attr) == SplitOn(reading_attr, "/")

\* parse_xml line 68: the targets of an ambiguous reading
ParseTargets(reading_attr) == SplitOn(Replace(reading_attr, "_f", ""), "/")

\* a policy that retypes a reading that already has a type
SubreadingType_AnyType(flag, type, wits) ==
    IF flag /\ Len(wits) <= 1 THEN Some("subreading") ELSE type

\* a policy that is applied whether the switch is on or off
SubreadingType_IgnoresSwitch(flag, type, wits) ==
    IF type = None /\ Len(wits) <= 1 THEN Some("subreading") ELSE type

\* parse_xml lines 72-73: the singular-to-subreading policy
SubreadingType(flag, type, wits) ==
    IF flag /\ type = None /\ Len(wits) <= 1 THEN Some("subreading") ELSE type

\* a parse_xml that keeps the omission marker as the text
ReadingText_KeepOmission(type, text) ==
    IF type \notin {Some("ambiguous"), Some("overlap"), Some("lac")} /\ text # None
    THEN text
    ELSE None

\* parse_xml lines 76-79: the text of the reading
ReadingText(type, text) ==
    IF type \notin {Some("ambiguous"), Some("overlap"), Some("lac")}
       /\ text # None /\ text # Some(omission_string)
    THEN text
    ELSE None

(***************************************************************************)
(* Reading runs: Reading.parse_xml applied to one segmentReading element   *)
(***************************************************************************)
Labels == {"a", "b ", "f", "af", "af2", "bo", "zu", "zw", "zz", diamond \o "zw"}

ReadingAttrs == {"", "a", "a_f/b", "a/b_f/c_f2"}

WitnessesAttrs == {"", "01", "01 02"}

Texts == {None, Some(omission_string), Some("abc")}

\* segmentReading elements: the label is always given here, the witnesses and
\* reading attributes may be absent
SegmentReadings ==
    {[attrs |-> [label |-> l, witnesses |-> w], text |-> t] :
        l \in Labels, w \in WitnessesAttrs, t \in Texts}
    \cup {[attrs |-> [label |-> l, witnesses |-> w, reading |-> r], text |-> t] :
        l \in Labels, w \in WitnessesAttrs, r \in ReadingAttrs, t \in Texts}
    \cup {[attrs |-> [label |-> l], text |-> t] : l \in Labels, t \in Texts}
    \cup {[attrs |-> [label |-> l, reading |-> r], text |-> t] :
        l \in Labels, r \in ReadingAttrs, t \in Texts}

\* no element: to_xml has not been called
NoElement == [tag |-> "", attrs |-> <<>>, text |-> None]

\* no object: VariationUnit has not been constructed
NoUnit == [id |-> None, readings |-> <<>>]

\* the variables of the grammar runs, where no grammar function is applied
NoGrammarRun ==
    /\ op = ""
    /\ wit_str = ""
    /\ result = ""
    /\ passes = 0

\* the variables of the reading runs, where no reading is parsed
NoReadingRun ==
    /\ segment_reading = [attrs |-> <<>>, text |-> None]
    /\ singular_to_subreading = FALSE
    /\ reading = NewReading
    /\ tei = NoElement

\* the variables of the unit runs, where no VariationUnit is constructed
NoUnitRun ==
    /\ loc = None
    /\ app_from = None
    /\ app_to = None
    /\ unit = NoUnit

\* the variables of the loop runs, where no loop is run
NoLoopRun ==
    /\ callee = ""
    /\ arg_siglum = ""
    /\ arg_regex = ""
    /\ base_manuscript_siglum = ""
    /\ old_string = ""
    /\ extracted_prefixes = <<>>
    /\ iterations = 0
    /\ returned = None

\* the variables of the collation runs, where no collation is read
NoCollationRun ==
    /\ vmr = <<>>
    /\ xml_tree = <<>>
    /\ seg = 0
    /\ rdg = 0
    /\ covered_manuscripts_set = {}
    /\ witnesses = <<>>
    /\ witness_inds_by_id = <<>>
    /\ scan_wits = <<>>
    /\ covered_witnesses = {}
    /\ segment_byz_witnesses = <<>>

ReadingInit ==
    /\ pc = "new"
    /\ segment_reading \in SegmentReadings
    /\ singular_to_subreading \in BOOLEAN
    /\ reading = NewReading
    /\ tei = NoElement
    /\ err = ""
    /\ NoGrammarRun
    /\ NoUnitRun
    /\ NoLoopRun
    /\ NoCollationRun

\* Reading.parse_xml; the name label of lines 54-62 is read as the stripped
\* label that line 51 stores in self.id
ParseXml ==
    /\ pc = "new"
    /\ LET xml == segment_reading
           id == ReadingId(xml)
           type == LabelType(id)
           after_label == [reading EXCEPT !.id = Some(id), !.type = type, !.targets = <<>>]
           targets == IF type = Some("ambiguous")
                      THEN ParseTargets(xml.attrs["reading"]) ELSE <<>>
           wits == Split(xml.attrs["witnesses"])
           final_type == SubreadingType(singular_to_subreading, type, wits)
       IN  IF ~HasAttr(xml, "label")
           THEN pc' = "raised" /\ err' = "AttributeError" /\ UNCHANGED reading
           ELSE IF type = Some("ambiguous") /\ ~HasAttr(xml, "reading")
           THEN pc' = "raised" /\ err' = "AttributeError" /\ reading' = after_label
           ELSE IF ~HasAttr(xml, "witnesses")
           THEN /\ pc' = "raised" /\ err' = "AttributeError"
                /\ reading' = [after_label EXCEPT !.targets = targets]
           ELSE /\ pc' = "parsed"
                /\ reading' = [id |-> Some(id), type |-> final_type, wits |-> wits,
                               targets |-> targets,
                               text |-> ReadingText(final_type, xml.text)]
                /\ UNCHANGED err
    /\ UNCHANGED <<segment_reading, singular_to_subreading, tei>>
    /\ UNCHANGED <<grammar_vars, unit_vars, loop_vars, collation_vars>>

ReadingNext == ParseXml

SpecReading == ReadingInit /\ [][ReadingNext]_vars

(***************************************************************************)
(* Rendering: Reading.to_xml.  The script patterns are ranges of code      *)
(* points, so in the rendering runs the text of a Reading is kept as its   *)
(* sequence of code points.                                                *)
(***************************************************************************)
\* greek_rdg_pattern.match(text): [\u03b1-\u03c9] at the start of the text
greek_rdg_pattern(text) == Len(text) >= 1 /\ text[1] \in 945..969

\* latin_rdg_pattern.match(text): [\u0061-\u007a] at the start of the text
latin_rdg_pattern(text) == Len(text) >= 1 /\ text[1] \in 97..122

\* syriac_rdg_pattern.match(text): [\u0710-\u074f] at the start of the text
syriac_rdg_pattern(text) == Len(text) >= 1 /\ text[1] \in 1808..1871

\* coptic_rdg_pattern.match(text): [\u03e2-\u03ef\u2c80-\u2cee] at the start
coptic_rdg_pattern(text) ==
    Len(text) >= 1 /\ (text[1] \in 994..1007 \/ text[1] \in 11392..11502)

\* a to_xml that looks for the scripts anywhere in the text
XmlLang_Search(text) ==
    IF \E i \in 1..Len(text) : text[i] \in 945..969 THEN None
    ELSE IF \E i \in 1..Len(text) : text[i] \in 97..122 THEN Some("lat")
    ELSE IF \E i \in 1..Len(text) : text[i] \in 1808..1871 THEN Some("syr")
    ELSE IF \E i \in 1..Len(text) : text[i] \in 994..1007 \/ text[i] \in 11392..11502
    THEN Some("cop")
    ELSE None

\* to_xml lines 98-105: the xml:lang attribute for a text, None for no attribute
XmlLang(text) ==
    IF greek_rdg_pattern(text) THEN None
    ELSE IF latin_rdg_pattern(text) THEN Some("lat")
    ELSE IF syriac_rdg_pattern(text) THEN Some("syr")
    ELSE IF coptic_rdg_pattern(text) THEN Some("cop")
    ELSE None

\* to_xml line 87: the tag of the element
ElementTag(r) ==
    IF Len(r.targets) = 0 /\ r.type \notin {Some("ambiguous"), Some("overlap"), Some("lac")}
    THEN "rdg"
    ELSE "witDetail"

\* to_xml lines 89-105: the attributes of the element
ElementAttrs(r) ==
    LET lang == IF r.text # None THEN XmlLang(r.text[1]) ELSE None
        names == {"wit"}
                 \cup (IF r.id # None THEN {"n"} ELSE {})
                 \cup (IF r.type # None THEN {"type"} ELSE {})
                 \cup (IF Len(r.targets) > 0 THEN {"target"} ELSE {})
                 \cup (IF lang # None THEN {"xml:lang"} ELSE {})
    IN  [a \in names |->
            CASE a = "n" -> r.id[1]
              [] a = "type" -> r.type[1]
              [] a = "wit" -> Join(r.wits, " ")
              [] a = "target" -> Join(r.targets, " ")
              [] a = "xml:lang" -> lang[1]]

\* Reading.to_xml: text is set at line 106, only when the Reading has one
to_xml(r) == [tag |-> ElementTag(r), attrs |-> ElementAttrs(r), text |-> r.text]

(***************************************************************************)
(* Rendering runs: Reading.to_xml applied to one Reading                   *)
(***************************************************************************)
\* texts in Greek, Latin, Syriac and Coptic (both ranges), texts that start in
\* one script and go on in another, and texts that start with a capital, a
\* space, a digit or an accented Greek letter; the empty text
RenderTexts ==
    {None, Some(<<>>),
     Some(<<949, 957>>), Some(<<97, 98>>), Some(<<1808, 1810>>),
     Some(<<994>>), Some(<<11393, 11394>>),
     Some(<<97, 946>>), Some(<<946, 97>>), Some(<<1808, 97>>),
     Some(<<65, 98>>), Some(<<32, 97>>), Some(<<49, 945>>), Some(<<7936, 957>>)}

RenderReadings ==
    {[id |-> i, type |-> t, wits |-> w, targets |-> g, text |-> x] :
        i \in {None, Some("a")},
        t \in {None, Some("defective"), Some("ambiguous"), Some("lac")},
        w \in {<<>>, <<"01", "02">>},
        g \in {<<>>, <<"a", "b">>},
        x \in RenderTexts}

RenderInit ==
    /\ pc = "render"
    /\ segment_reading = [attrs |-> <<>>, text |-> None]
    /\ singular_to_subreading = FALSE
    /\ reading \in RenderReadings
    /\ tei = NoElement
    /\ err = ""
    /\ NoGrammarRun
    /\ NoUnitRun
    /\ NoLoopRun
    /\ NoCollationRun

\* Reading.to_xml
ToXml ==
    /\ pc = "render"
    /\ tei' = to_xml(reading)
    /\ pc' = "rendered"
    /\ UNCHANGED <<segment_reading, singular_to_subreading, reading, err>>
    /\ UNCHANGED <<grammar_vars, unit_vars, loop_vars, collation_vars>>

RenderNext == ToXml

SpecRender == RenderInit /\ [][RenderNext]_vars

(***************************************************************************)
(* Grammar runs: one function of the siglum grammar applied to a witness   *)
(* string drawn from bounded sets of sigla and separators.                 *)
(***************************************************************************)
MaxTokens == 3
MaxPasses == 2

\* sigla with parenthetical suffix lists
ParentheticalSigla == {"1(a,b)", "11(a,b)", "1(a, b)", "1()", "2"}

\* manuscript and versional sigla
VersionalSigla == {"L:V", "AU", "2", "L", "A:V", "L23"}

\* sigla with the noise cleanup removes
NoisySigla == {"01", "[02]", "K>", "L:", "&nbsp;"}

SiglaFamilies ==
    { [sigla |-> ParentheticalSigla, seps |-> {" ", ""}],
      [sigla |-> VersionalSigla, seps |-> {" ", "   "}],
      [sigla |-> NoisySigla, seps |-> {" ", "."}] }

\* the strings of n sigla of a family, separated by its separators
RECURSIVE TokenStrings(_, _)
TokenStrings(f, n) ==
    IF n = 1 THEN f.sigla
    ELSE {s \o sep \o t : s \in TokenStrings(f, n - 1), sep \in f.seps, t \in f.sigla}

WitnessStrings ==
    UNION {TokenStrings(f, n) : f \in SiglaFamilies, n \in 1..MaxTokens}

GrammarInit ==
    /\ pc = "input"
    /\ op = ""
    /\ wit_str \in WitnessStrings
    /\ result = ""
    /\ passes = 0
    /\ err = ""
    /\ NoReadingRun
    /\ NoUnitRun
    /\ NoLoopRun
    /\ NoCollationRun

\* cleanup_witness_lists lines 280-296 on one witnesses attribute
Cleanup ==
    /\ pc = "input"
    /\ op' = "cleanup"
    /\ passes' = passes + 1
    /\ IF cleanup_raises(wit_str)
       THEN pc' = "raised" /\ err' = "AttributeError" /\ UNCHANGED result
       ELSE pc' = "returned" /\ result' = cleanup(wit_str) /\ UNCHANGED err
    /\ UNCHANGED wit_str
    /\ UNCHANGED <<reading_vars, unit_vars, loop_vars, collation_vars>>

\* the cleaned string is given to cleanup again
CleanupAgain ==
    /\ pc = "returned"
    /\ op = "cleanup"
    /\ passes < MaxPasses
    /\ pc' = "input"
    /\ wit_str' = result
    /\ result' = ""
    /\ UNCHANGED <<op, passes, err>>
    /\ UNCHANGED <<reading_vars, unit_vars, loop_vars, collation_vars>>

ExpandParentheticalSuffixes ==
    /\ pc = "input"
    /\ passes = 0
    /\ op' = "expand_parenthetical_suffixes"
    /\ pc' = "returned"
    /\ result' = expand_parenthetical_suffixes(wit_str)
    /\ UNCHANGED <<wit_str, passes, err>>
    /\ UNCHANGED <<reading_vars, unit_vars, loop_vars, collation_vars>>

NormalizeVersionalSigla ==
    /\ pc = "input"
    /\ passes = 0
    /\ op' = "normalize_versional_sigla"
    /\ IF normalize_versional_sigla_raises(wit_str)
       THEN pc' = "raised" /\ err' = "AttributeError" /\ UNCHANGED result
       ELSE pc' = "returned" /\ result' = normalize_versional_sigla(wit_str) /\ UNCHANGED err
    /\ UNCHANGED <<wit_str, passes>>
    /\ UNCHANGED <<reading_vars, unit_vars, loop_vars, collation_vars>>

GrammarNext ==
    \/ Cleanup
    \/ CleanupAgain
    \/ ExpandParentheticalSuffixes
    \/ NormalizeVersionalSigla

SpecGrammar == GrammarInit /\ [][GrammarNext]_vars

(***************************************************************************)
(* Witness registry: witness.py and Collation.parse_witnesses              *)
(***************************************************************************)
\* the ECM Byzantine witnesses
byz_witnesses ==
    <<"P57", "014", "014S", "020", "025", "049", "077", "0120", "0142",
      "0166", "0294", "1", "6", "18", "35", "43", "69", "93", "103", "104",
      "206S", "218", "228", "254", "319", "321", "323", "326", "330", "365",
      "378", "383", "424", "459", "468", "607", "617", "642", "665", "808",
      "876", "886", "1003", "1127", "1241", "1243", "1251", "1359", "1448",
      "1509", "1563", "1609", "1718", "1735", "1739S", "1827S", "1832",
      "1837", "1852", "1874", "1874S", "1890S1", "1890S2", "2243", "2374",
      "2570", "2774", "L23", "L156", "L587", "L809", "L1178">>

\* the characters of the sigla in the order of their code points
CodePoints ==
    " !#$%&()*+,-./0123456789:;<=>?@ABCDEFGHIJKLMNOPQRSTUVWXYZ[]^_abcdefghijklmnopqrstuvwxyz{|}~Ä"

Ord(c) == CHOOSE i \in 1..Len(CodePoints) : Ch(CodePoints, i) = c

\* a < b for Python strings
RECURSIVE StrLess(_, _)
StrLess(a, b) ==
    IF b = "" THEN FALSE
    ELSE IF a = "" THEN TRUE
    ELSE IF Ch(a, 1) = Ch(b, 1) THEN StrLess(Tail(a), Tail(b))
    ELSE Ord(Ch(a, 1)) < Ord(Ch(b, 1))

\* list.index, counted from 0
Index(seq, x) == (CHOOSE i \in 1..Len(seq) : seq[i] = x /\ \A j \in 1..(i - 1) : seq[j] # x) - 1

\* a key type that puts the correctors with the fathers
KeyType_CorrectorsLast(wit_id, wit_type) ==
    IF wit_type = Some("corrector") THEN "father"
    ELSE IF wit_type # None THEN wit_type[1]
    ELSE IF papyrus_pattern(wit_id) THEN "papyrus"
    ELSE IF majuscule_pattern(wit_id) THEN "majuscule"
    ELSE IF minuscule_pattern(wit_id) THEN "minuscule"
    ELSE IF lectionary_pattern(wit_id) THEN "lectionary"
    ELSE IF version_start_pattern(wit_id) THEN "version"
    ELSE "father"

\* Witness.get_key lines 55-68: the type the key is built for
KeyType(wit_id, wit_type) ==
    IF wit_type = None \/ wit_type = Some("corrector")
    THEN IF papyrus_pattern(wit_id) THEN "papyrus"
         ELSE IF majuscule_pattern(wit_id) THEN "majuscule"
         ELSE IF minuscule_pattern(wit_id) THEN "minuscule"
         ELSE IF lectionary_pattern(wit_id) THEN "lectionary"
         ELSE IF version_start_pattern(wit_id) THEN "version"
         ELSE "father"
    ELSE wit_type[1]

\* the exception Witness.get_key raises at lines 82-84, "" when none
get_key_raises(wit_id, wit_type) ==
    LET parts == SplitOn(wit_id, ":")
    IN  IF KeyType(wit_id, wit_type) # "version" THEN ""
        ELSE IF Len(parts) < 2 THEN "IndexError"
        ELSE IF parts[1] \notin Range(version_prefixes) THEN "ValueError"
        ELSE ""

\* Witness.get_key lines 69-86: the entry for the type, none for any other type
KeyRank(wit_id, wit_type) ==
    LET type == KeyType(wit_id, wit_type)
    IN  CASE type = "papyrus" -> <<1>>
          [] type = "majuscule" -> <<2>>
          [] type = "minuscule" -> <<3>>
          [] type = "lectionary" -> <<4>>
          [] type = "version" -> <<5 + Index(version_prefixes, SplitOn(wit_id, ":")[1])>>
          [] type = "father" -> <<5 + Len(version_prefixes)>>
          [] OTHER -> <<>>

\* Witness.get_key lines 69-86: the ID without the prefix of its type
KeyId(wit_id, wit_type) ==
    LET type == KeyType(wit_id, wit_type)
    IN  CASE type \in {"papyrus", "majuscule", "lectionary"} -> SubSeq(wit_id, 2, Len(wit_id))
          [] type = "version" -> SplitOn(wit_id, ":")[2]
          [] OTHER -> wit_id

\* Witness.get_key lines 87-93: the entry for the number
KeyNumber(id) ==
    IF minuscule_pattern(id) THEN ToInt(SubSeq(id, 1, DigitRunEnd(id, 1))) ELSE 10000

\* Witness.get_key lines 91-96: the entry for what is left of the ID, if anything
KeyLeftover(id) ==
    LET left == IF minuscule_pattern(id)
                THEN SubSeq(id, DigitRunEnd(id, 1) + 1, Len(id)) ELSE id
    IN  IF Len(left) > 0 THEN <<left>> ELSE <<>>

\* a key without the entry for the leftover string
get_key_NoLeftover(wit_id, wit_type) ==
    KeyRank(wit_id, wit_type) \o <<KeyNumber(KeyId(wit_id, wit_type))>>

\* Witness.get_key: the sort key
get_key(wit_id, wit_type) ==
    KeyRank(wit_id, wit_type)
        \o <<KeyNumber(KeyId(wit_id, wit_type))>>
        \o KeyLeftover(KeyId(wit_id, wit_type))

\* Witness.__init__
Witness(id, witness_type) ==
    [id |-> id, type |-> witness_type, key |-> get_key(id, witness_type)]

\* k1 < k2 for key tuples, compared from entry p on. A key with a rank has
\* integers in its first two entries and the leftover string in the third; a
\* key without a rank starts with 10000, which is no rank.
RECURSIVE TupleLess(_, _, _)
TupleLess(k1, k2, p) ==
    IF p > Len(k2) THEN FALSE
    ELSE IF p > Len(k1) THEN TRUE
    ELSE IF k1[p] = k2[p] THEN TupleLess(k1, k2, p + 1)
    ELSE IF p = 3 THEN StrLess(k1[p], k2[p])
    ELSE k1[p] < k2[p]

\* Witness.__lt__
WitnessLess(w1, w2) == TupleLess(w1.key, w2.key, 1)

\* a list left in the order of registration
SortWitnessList_Unsorted(list) == list

\* list.sort(key=...) of parse_witnesses line 281, the key read as Witness.key.
\* The sort is stable: an entry goes behind the entries with a smaller key and
\* behind the earlier entries with an equal key.
SortWitnessList(list) ==
    LET n == Len(list)
        places == {<<1 + Cardinality({j \in 1..n :
                           IF j < i THEN ~WitnessLess(list[i], list[j])
                           ELSE WitnessLess(list[j], list[i])}), i>> : i \in 1..n}
    IN  [k \in 1..n |-> list[(CHOOSE p \in places : p[1] = k)[2]]]

\* indices that are counted from 1
IndsById_FromOne(list) ==
    [id \in {list[i].id : i \in 1..Len(list)} |->
        CHOOSE i \in 1..Len(list) : list[i].id = id /\ \A j \in (i + 1)..Len(list) : list[j].id # id]

\* parse_witnesses lines 282-284: the indices of the list, counted from 0
IndsById(list) ==
    [id \in {list[i].id : i \in 1..Len(list)} |->
        (CHOOSE i \in 1..Len(list) : list[i].id = id /\ \A j \in (i + 1)..Len(list) : list[j].id # id) - 1]

\* a stripping that takes off every manuscript suffix, correctors included,
\* whatever the registry holds
Collation_get_base_manuscript_siglum_All(siglum, regex, inds) ==
    get_base_manuscript_siglum(siglum, "all")

\* Collation.get_base_manuscript_siglum: strip suffixes until the siglum is
\* registered or has no suffix left
RECURSIVE Collation_get_base_manuscript_siglum(_, _, _)
Collation_get_base_manuscript_siglum(siglum, regex, inds) ==
    LET suffix == SuffixMatch(regex, siglum)
    IN  IF siglum \in DOMAIN inds THEN siglum
        ELSE IF suffix = "" THEN siglum
        ELSE Collation_get_base_manuscript_siglum(
                 SubSeq(siglum, 1, Len(siglum) - Len(suffix)), regex, inds)

\* a dictionary that keeps the last key only
DictSet_Forget(dict, key, value) == [k \in {key} |-> value]

\* dict[key] = value
DictSet(dict, key, value) ==
    [k \in DOMAIN dict \cup {key} |-> IF k = key THEN value ELSE dict[k]]

\* a coverage that counts a corrector as a citation of its manuscript
CoveredManuscripts_WithCorrectors(wit_list) ==
    {get_base_manuscript_siglum(wit_list[i], "all") :
        i \in {j \in 1..Len(wit_list) : manuscript_witness_pattern(wit_list[j])}}

\* cleanup_witness_lists lines 300-307: the manuscripts one cleaned witness list covers
CoveredManuscripts(wit_list) ==
    {get_base_manuscript_siglum(wit_list[i], "ignored") :
        i \in {j \in 1..Len(wit_list) :
                  manuscript_witness_pattern(wit_list[j]) /\ ~corrector_pattern(wit_list[j])}}

\* a filter that leaves every witness in the list
Select_All(list, covered) == list

\* [wit for wit in list if wit not in covered]
RECURSIVE Select(_, _)
Select(list, covered) ==
    IF list = <<>> THEN <<>>
    ELSE IF Head(list) \in covered THEN Select(Tail(list), covered)
    ELSE <<Head(list)>> \o Select(Tail(list), covered)

\* cleanup_witness_lists line 309
remaining_byz_witnesses(covered) == Select(byz_witnesses, covered)

\* parse_witnesses lines 202-215: type and ID of a Byzantine witness
ByzWitness(wit) ==
    IF papyrus_pattern(wit) THEN Witness(wit, Some("papyrus"))
    ELSE IF majuscule_pattern(wit) THEN Witness(wit, Some("majuscule"))
    ELSE IF minuscule_pattern(wit) THEN Witness(wit, Some("minuscule"))
    ELSE IF lectionary_pattern(wit) THEN Witness(wit, Some("lectionary"))
    ELSE Witness("", Some(""))

\* parse_witnesses lines 201-218: the list and the dictionary after the witnesses
\* of byz are added, each without a look at the dictionary
AddByzWitnesses(list, inds, byz) ==
    LET added == [i \in 1..Len(byz) |-> ByzWitness(byz[i])]
        ids == {added[i].id : i \in 1..Len(byz)}
        last(id) == CHOOSE i \in 1..Len(byz) :
                        added[i].id = id /\ \A j \in (i + 1)..Len(byz) : added[j].id # id
    IN  [witnesses |-> list \o added,
         witness_inds_by_id |->
             [id \in DOMAIN inds \cup ids |->
                 IF id \in ids THEN Len(list) + last(id) - 1 ELSE inds[id]]]

\* a lookup that knows no siglum
Known_Never(wit_id, inds) == FALSE

\* wit_id in self.witness_inds_by_id
Known(wit_id, inds) == wit_id \in DOMAIN inds

\* a scan that leaves a siglum of no known shape without a type
Registration_NoFallback(wit, inds) ==
    LET manuscript == \/ papyrus_pattern(wit) \/ majuscule_pattern(wit)
                      \/ minuscule_pattern(wit) \/ lectionary_pattern(wit)
        wit_type == IF papyrus_pattern(wit) THEN "papyrus"
                    ELSE IF majuscule_pattern(wit) THEN "majuscule"
                    ELSE IF minuscule_pattern(wit) THEN "minuscule"
                    ELSE IF lectionary_pattern(wit) THEN "lectionary"
                    ELSE IF version_start_pattern(wit) THEN "version"
                    ELSE ""
        wit_id == IF manuscript \/ (wit_type = "version" /\ manuscript_witness_pattern(wit))
                  THEN Collation_get_base_manuscript_siglum(wit, "ignored", inds)
                  ELSE wit
        divided == EndsWith(wit_id, "ms") \/ EndsWith(wit_id, "mss")
        skipped == \/ wit_type = "version" /\ divided
                   \/ wit_type = "" /\ (EndsWith(wit_id, "T") \/ divided)
        corrector == manuscript_witness_pattern(wit_id) /\ corrector_pattern(wit_id)
    IN  IF wit = "Byz" \/ Known(wit, inds) \/ skipped
        THEN [add |-> FALSE, id |-> wit_id, type |-> None]
        ELSE [add |-> ~Known(wit_id, inds), id |-> wit_id,
              type |-> Some(IF corrector THEN "corrector" ELSE wit_type)]

\* parse_witnesses lines 224-279 for one siglum: whether a Witness is added,
\* and its ID and type
Registration(wit, inds) ==
    LET manuscript == \/ papyrus_pattern(wit) \/ majuscule_pattern(wit)
                      \/ minuscule_pattern(wit) \/ lectionary_pattern(wit)
        wit_type == IF papyrus_pattern(wit) THEN "papyrus"
                    ELSE IF majuscule_pattern(wit) THEN "majuscule"
                    ELSE IF minuscule_pattern(wit) THEN "minuscule"
                    ELSE IF lectionary_pattern(wit) THEN "lectionary"
                    ELSE IF version_start_pattern(wit) THEN "version"
                    ELSE "father"
        wit_id == IF manuscript \/ (wit_type = "version" /\ manuscript_witness_pattern(wit))
                  THEN Collation_get_base_manuscript_siglum(wit, "ignored", inds)
                  ELSE wit
        divided == EndsWith(wit_id, "ms") \/ EndsWith(wit_id, "mss")
        skipped == \/ wit_type = "version" /\ divided
                   \/ wit_type = "father" /\ (EndsWith(wit_id, "T") \/ divided)
        corrector == manuscript_witness_pattern(wit_id) /\ corrector_pattern(wit_id)
    IN  IF wit = "Byz" \/ Known(wit, inds) \/ skipped
        THEN [add |-> FALSE, id |-> wit_id, type |-> None]
        ELSE [add |-> ~Known(wit_id, inds), id |-> wit_id,
              type |-> Some(IF corrector THEN "corrector" ELSE wit_type)]

\* get_byz_witnesses line 314: the types of the (Greek) manuscripts
GreekManuscriptTypes ==
    {Some(t) : t \in {"papyrus", "majuscule", "minuscule", "lectionary"}}

\* get_byz_witnesses lines 300-310: the sigla that are looked up for a segment,
\* the base siglum of every siglum but Byz of every segmentReading; the name
\* witnesses_string is read as the witnesses attribute of the segmentReading
LookedUp(segment, inds) ==
    UNION {{Collation_get_base_manuscript_siglum(wit, "ignored", inds) :
               wit \in Range(Split(segment[r])) \ {"Byz"}} : r \in 1..Len(segment)}

\* get_byz_witnesses line 311: self.witness_inds_by_id[wit_id] raises KeyError
\* for a siglum that is no key of the dictionary
get_byz_witnesses_raises(segment, inds) ==
    \E wit_id \in LookedUp(segment, inds) : wit_id \notin DOMAIN inds

\* get_byz_witnesses lines 298-315: the set covered_witnesses of a segment
CoveredWitnesses(segment, list, inds) ==
    {wit_id \in LookedUp(segment, inds) :
        list[inds[wit_id] + 1].type \in GreekManuscriptTypes}

\* get_byz_witnesses line 316
get_byz_witnesses(segment, list, inds) ==
    Select(byz_witnesses, CoveredWitnesses(segment, list, inds))

(***************************************************************************)
(* Collation runs: cleanup_witness_lists, then Collation.parse_witnesses   *)
(***************************************************************************)
MaxReadings == 2

\* witnesses attributes of segmentReading elements
WitnessesPool ==
    {"014 Byz", "025", "K:S [Byz] L:V 5C", "69C2 88 69C1 1* 01 88T",
     "Or OrT Orms Ormss 0 P45 025C L:50 L:5 K:Sms S:Pmss", "A:V", "L:Vms"}

\* the ways to cut a sequence of segmentReading elements into segments
RECURSIVE Segmentations(_)
Segmentations(readings) ==
    IF readings = <<>> THEN {<<>>}
    ELSE UNION {{<<SubSeq(readings, 1, k)>> \o rest :
                    rest \in Segmentations(SubSeq(readings, k + 1, Len(readings)))} :
                k \in 1..Len(readings)}

Trees ==
    UNION {Segmentations(readings) :
              readings \in UNION {[1..n -> WitnessesPool] : n \in 1..MaxReadings}}

CollationInit ==
    /\ pc = "pass1"
    /\ vmr \in Trees
    /\ xml_tree = vmr
    /\ seg = 1
    /\ rdg = 1
    /\ covered_manuscripts_set = {}
    /\ witnesses = <<>>
    /\ witness_inds_by_id = <<>>
    /\ scan_wits = <<>>
    /\ covered_witnesses = {}
    /\ segment_byz_witnesses = <<>>
    /\ err = ""
    /\ NoGrammarRun
    /\ NoReadingRun
    /\ NoUnitRun
    /\ NoLoopRun

\* cleanup_witness_lists lines 278-307: the first pass at one segmentReading
CleanupSegmentReading ==
    /\ pc = "pass1"
    /\ LET witnesses_string == xml_tree[seg][rdg]
           cleaned == cleanup(witnesses_string)
       IN  IF cleanup_raises(witnesses_string)
           THEN /\ pc' = "raised"
                /\ err' = "AttributeError"
                /\ UNCHANGED <<xml_tree, rdg, covered_manuscripts_set>>
           ELSE /\ xml_tree' = [xml_tree EXCEPT ![seg][rdg] = cleaned]
                /\ covered_manuscripts_set' =
                       covered_manuscripts_set \cup CoveredManuscripts(Split(cleaned))
                /\ IF rdg < Len(xml_tree[seg])
                   THEN rdg' = rdg + 1 /\ UNCHANGED pc
                   ELSE rdg' = 1 /\ pc' = "pass2"
                /\ UNCHANGED err
    /\ UNCHANGED <<vmr, seg, witnesses, witness_inds_by_id, scan_wits>>
    /\ UNCHANGED <<covered_witnesses, segment_byz_witnesses>>
    /\ UNCHANGED <<grammar_vars, reading_vars, unit_vars, loop_vars>>

\* cleanup_witness_lists lines 309-314: the second pass at one segmentReading
ReplaceByz ==
    /\ pc = "pass2"
    /\ LET witnesses_string == xml_tree[seg][rdg]
           replacement == Join(remaining_byz_witnesses(covered_manuscripts_set), " ")
       IN  xml_tree' = IF Contains(witnesses_string, "Byz")
                       THEN [xml_tree EXCEPT
                                ![seg][rdg] = Replace(witnesses_string, "Byz", replacement)]
                       ELSE xml_tree
    /\ IF rdg < Len(xml_tree[seg])
       THEN rdg' = rdg + 1 /\ UNCHANGED <<pc, seg, covered_manuscripts_set>>
       ELSE IF seg < Len(xml_tree)
       THEN /\ seg' = seg + 1
            /\ rdg' = 1
            /\ covered_manuscripts_set' = {}
            /\ pc' = "pass1"
       ELSE /\ pc' = "parse_witnesses"
            /\ seg' = 1
            /\ rdg' = 1
            /\ UNCHANGED covered_manuscripts_set
    /\ UNCHANGED <<vmr, witnesses, witness_inds_by_id, scan_wits, err>>
    /\ UNCHANGED <<covered_witnesses, segment_byz_witnesses>>
    /\ UNCHANGED <<grammar_vars, reading_vars, unit_vars, loop_vars>>

\* parse_witnesses lines 200-218: the Byzantine witnesses are added first
RegisterByzWitnesses ==
    /\ pc = "parse_witnesses"
    /\ LET added == AddByzWitnesses(witnesses, witness_inds_by_id, byz_witnesses)
       IN  /\ witnesses' = added.witnesses
           /\ witness_inds_by_id' = added.witness_inds_by_id
    /\ pc' = "segmentReading"
    /\ UNCHANGED <<vmr, xml_tree, seg, rdg, covered_manuscripts_set, scan_wits, err>>
    /\ UNCHANGED <<covered_witnesses, segment_byz_witnesses>>
    /\ UNCHANGED <<grammar_vars, reading_vars, unit_vars, loop_vars>>

\* a scan that is followed by parse_segments at once, with no sort in between
NextSegmentReading_NoSort ==
    IF rdg < Len(xml_tree[seg])
    THEN rdg' = rdg + 1 /\ pc' = "segmentReading" /\ UNCHANGED seg
    ELSE IF seg < Len(xml_tree)
    THEN seg' = seg + 1 /\ rdg' = 1 /\ pc' = "segmentReading"
    ELSE pc' = "segment" /\ seg' = 1 /\ rdg' = 1

\* parse_witnesses line 220: on to the next segmentReading, or to the sort
NextSegmentReading ==
    IF rdg < Len(xml_tree[seg])
    THEN rdg' = rdg + 1 /\ pc' = "segmentReading" /\ UNCHANGED seg
    ELSE IF seg < Len(xml_tree)
    THEN seg' = seg + 1 /\ rdg' = 1 /\ pc' = "segmentReading"
    ELSE pc' = "sort" /\ UNCHANGED <<seg, rdg>>

\* parse_witnesses line 222; the name witnesses_string is read as the
\* witnesses attribute of the segmentReading
SplitWitnesses ==
    /\ pc = "segmentReading"
    /\ LET split == Split(xml_tree[seg][rdg])
       IN  IF split = <<>>
           THEN NextSegmentReading /\ UNCHANGED scan_wits
           ELSE scan_wits' = split /\ pc' = "wit" /\ UNCHANGED <<seg, rdg>>
    /\ UNCHANGED <<vmr, xml_tree, covered_manuscripts_set, witnesses, witness_inds_by_id, err>>
    /\ UNCHANGED <<covered_witnesses, segment_byz_witnesses>>
    /\ UNCHANGED <<grammar_vars, reading_vars, unit_vars, loop_vars>>

\* parse_witnesses lines 223-279: one siglum of the segmentReading
RegisterWitness ==
    /\ pc = "wit"
    /\ LET r == Registration(Head(scan_wits), witness_inds_by_id)
       IN  IF r.add /\ get_key_raises(r.id, r.type) # ""
           THEN /\ pc' = "raised"
                /\ err' = get_key_raises(r.id, r.type)
                /\ UNCHANGED <<witnesses, witness_inds_by_id, scan_wits, seg, rdg>>
           ELSE /\ IF r.add
                   THEN /\ witnesses' = Append(witnesses, Witness(r.id, r.type))
                        /\ witness_inds_by_id' =
                               DictSet(witness_inds_by_id, r.id, Len(witnesses))
                   ELSE UNCHANGED <<witnesses, witness_inds_by_id>>
                /\ scan_wits' = Tail(scan_wits)
                /\ IF Tail(scan_wits) = <<>>
                   THEN NextSegmentReading
                   ELSE UNCHANGED <<pc, seg, rdg>>
                /\ UNCHANGED err
    /\ UNCHANGED <<vmr, xml_tree, covered_manuscripts_set>>
    /\ UNCHANGED <<covered_witnesses, segment_byz_witnesses>>
    /\ UNCHANGED <<grammar_vars, reading_vars, unit_vars, loop_vars>>

\* parse_witnesses lines 280-284: the list is sorted and the dictionary rebuilt;
\* the name wit_sort_key is read as the key of the Witness
SortWitnesses ==
    /\ pc = "sort"
    /\ witnesses' = SortWitnessList(witnesses)
    /\ witness_inds_by_id' =
           [id \in DOMAIN witness_inds_by_id \cup DOMAIN IndsById(witnesses') |->
               IF id \in DOMAIN IndsById(witnesses')
               THEN IndsById(witnesses')[id] ELSE witness_inds_by_id[id]]
    /\ pc' = "finalized"
    /\ UNCHANGED <<vmr, xml_tree, seg, rdg, covered_manuscripts_set, scan_wits, err>>
    /\ UNCHANGED <<covered_witnesses, segment_byz_witnesses>>
    /\ UNCHANGED <<grammar_vars, reading_vars, unit_vars, loop_vars>>

\* parse_segments, called once parse_witnesses has returned (the method
\* parse_xml that main.py calls is not part of the source; the order of the
\* calls is the one the docstrings and the lookups of line 311 ask for)
ParseSegments ==
    /\ pc = "finalized"
    /\ pc' = "segment"
    /\ seg' = 1
    /\ rdg' = 1
    /\ UNCHANGED <<vmr, xml_tree, covered_manuscripts_set, witnesses, witness_inds_by_id,
                   scan_wits, covered_witnesses, segment_byz_witnesses, err>>
    /\ UNCHANGED <<grammar_vars, reading_vars, unit_vars, loop_vars>>

\* parse_segments lines 326-330 for one segment: get_byz_witnesses is called,
\* and the loop over the segmentReading elements has no body
ParseSegment ==
    /\ pc = "segment"
    /\ IF get_byz_witnesses_raises(xml_tree[seg], witness_inds_by_id)
       THEN /\ pc' = "raised"
            /\ err' = "KeyError"
            /\ UNCHANGED <<seg, covered_witnesses, segment_byz_witnesses>>
       ELSE /\ covered_witnesses' =
                   CoveredWitnesses(xml_tree[seg], witnesses, witness_inds_by_id)
            /\ segment_byz_witnesses' =
                   get_byz_witnesses(xml_tree[seg], witnesses, witness_inds_by_id)
            /\ IF seg < Len(xml_tree)
               THEN seg' = seg + 1 /\ UNCHANGED pc
               ELSE pc' = "parsed" /\ UNCHANGED seg
            /\ UNCHANGED err
    /\ UNCHANGED <<vmr, xml_tree, rdg, covered_manuscripts_set, witnesses,
                   witness_inds_by_id, scan_wits>>
    /\ UNCHANGED <<grammar_vars, reading_vars, unit_vars, loop_vars>>

Next ==
    \/ CleanupSegmentReading
    \/ ReplaceByz
    \/ RegisterByzWitnesses
    \/ SplitWitnesses
    \/ RegisterWitness
    \/ SortWitnesses
    \/ ParseSegments
    \/ ParseSegment

Spec == CollationInit /\ [][Next]_vars

(***************************************************************************)
(* Variation units: VariationUnit.__init__ of variation_unit.py            *)
(***************************************************************************)
\* whether the string concatenations of lines 30-32 raise TypeError: an
\* argument left at its default None is added to a string
VariationUnit_raises(l, f, t) ==
    \/ l = None
    \/ f = None
    \/ t # f /\ t = None

\* lines 30-32: the ID from the loc, from and to arguments
VariationUnitId(l, f, t) ==
    IF t # f
    THEN l[1] \o "/" \o f[1] \o "-" \o t[1]
    ELSE l[1] \o "/" \o f[1]

\* the arguments of the constructor: None is the default of an argument
Locs == {None, Some("Acts1:1"), Some("Acts1:2"), Some("Jn1:1"), Some("")}

Offsets == {None, Some("2"), Some("4"), Some("10"), Some("")}

UnitInit ==
    /\ pc = "new_unit"
    /\ loc \in Locs
    /\ app_from \in Offsets
    /\ app_to \in Offsets
    /\ unit = NoUnit
    /\ err = ""
    /\ NoGrammarRun
    /\ NoReadingRun
    /\ NoLoopRun
    /\ NoCollationRun

\* VariationUnit.__init__ lines 29-34; the call of line 36 to a parse method
\* that the class does not have is left out
ConstructUnit ==
    /\ pc = "new_unit"
    /\ IF VariationUnit_raises(loc, app_from, app_to)
       THEN pc' = "raised" /\ err' = "TypeError" /\ UNCHANGED unit
       ELSE /\ pc' = "constructed"
            /\ unit' = [id |-> Some(VariationUnitId(loc, app_from, app_to)), readings |-> <<>>]
            /\ UNCHANGED err
    /\ UNCHANGED <<loc, app_from, app_to, grammar_vars, reading_vars, loop_vars, collation_vars>>

UnitNext == ConstructUnit

SpecUnit == UnitInit /\ [][UnitNext]_vars

(***************************************************************************)
(* Loop runs: the while loops of Collation.get_base_manuscript_siglum,     *)
(* common.get_base_manuscript_siglum and split_versional_witnesses, one    *)
(* pass through the loop body per step.                                    *)
(***************************************************************************)
MaxIterations == 8

\* a slice that leaves the siglum as it is
WithoutSuffix_Nothing(siglum, suffix) == siglum

\* siglum[:-len(suffix)]
WithoutSuffix(siglum, suffix) == SubSeq(siglum, 1, Len(siglum) - Len(suffix))

\* old_string[len(prefix):]
WithoutPrefix(str, prefix) == SubSeq(str, Len(prefix) + 1, Len(str))

\* a loop body without the test of the registry
InRegistry_Never(siglum, inds) == FALSE

\* collation.py line 46: base_manuscript_siglum in self.witness_inds_by_id
InRegistry(siglum, inds) == siglum \in DOMAIN inds

\* sigla with runs of suffixes
LoopSigla ==
    {"69C2", "69C2f", "69C2*f1", "01C*", "01*f", "01CA1K", "L23", "L23T",
     "P45V*", "P45", "1Tf2V", "*", ""}

\* registries as the scan of parse_witnesses leaves them: sigla and types in
\* the order of their registration
LoopRegistries ==
    { <<>>,
      <<<<"69", "minuscule">>, <<"69C2", "corrector">>>>,
      <<<<"01", "majuscule">>, <<"01C", "corrector">>, <<"L23", "lectionary">>>>,
      <<<<"P45", "papyrus">>, <<"69C", "corrector">>>> }

\* the Witness list of a registry
RegistryList(entries) ==
    [i \in 1..Len(entries) |-> Witness(entries[i][1], Some(entries[i][2]))]

\* strings of versional sigla; the regex None is named ""
VersionalStrings == {"SBM", "PHms", "VAU12", "Smssms", "ChESi", "HTHmsA", "X", ""}

LoopInit ==
    /\ pc = "loop"
    /\ \/ /\ callee = "Collation.get_base_manuscript_siglum"
          /\ arg_siglum \in LoopSigla
          /\ arg_regex \in {"ignored", "all"}
          /\ \E entries \in LoopRegistries : witnesses = RegistryList(entries)
       \/ /\ callee = "get_base_manuscript_siglum"
          /\ arg_siglum \in LoopSigla
          /\ arg_regex \in {"ignored", "all"}
          /\ witnesses = <<>>
       \/ /\ callee = "split_versional_witnesses"
          /\ arg_siglum \in VersionalStrings
          /\ arg_regex \in VersionalRegexNames \cup {""}
          /\ witnesses = <<>>
    /\ witness_inds_by_id = IndsById(witnesses)
    /\ base_manuscript_siglum = arg_siglum
    /\ old_string = arg_siglum
    /\ extracted_prefixes = <<>>
    /\ iterations = 0
    /\ returned = None
    /\ vmr = <<>>
    /\ xml_tree = <<>>
    /\ seg = 0
    /\ rdg = 0
    /\ covered_manuscripts_set = {}
    /\ scan_wits = <<>>
    /\ covered_witnesses = {}
    /\ segment_byz_witnesses = <<>>
    /\ err = ""
    /\ NoGrammarRun
    /\ NoReadingRun
    /\ NoUnitRun

\* Collation.get_base_manuscript_siglum lines 44-56: one pass through the body
\* of the loop, or the return after the last one
CollationStripPass ==
    /\ pc = "loop"
    /\ callee = "Collation.get_base_manuscript_siglum"
    /\ LET suffix == SuffixMatch(arg_regex, base_manuscript_siglum)
       IN  IF InRegistry(base_manuscript_siglum, witness_inds_by_id) \/ suffix = ""
           THEN /\ pc' = "returned"
                /\ returned' = Some(base_manuscript_siglum)
                /\ UNCHANGED <<base_manuscript_siglum, iterations>>
           ELSE /\ iterations < MaxIterations
                /\ base_manuscript_siglum' = WithoutSuffix(base_manuscript_siglum, suffix)
                /\ iterations' = iterations + 1
                /\ UNCHANGED <<pc, returned>>
    /\ UNCHANGED <<callee, arg_siglum, arg_regex, old_string, extracted_prefixes, err>>
    /\ UNCHANGED <<grammar_vars, reading_vars, unit_vars, collation_vars>>

\* common.get_base_manuscript_siglum lines 152-159
StripPass ==
    /\ pc = "loop"
    /\ callee = "get_base_manuscript_siglum"
    /\ LET suffix == SuffixMatch(arg_regex, base_manuscript_siglum)
       IN  IF suffix = ""
           THEN /\ pc' = "returned"
                /\ returned' = Some(base_manuscript_siglum)
                /\ UNCHANGED <<base_manuscript_siglum, iterations>>
           ELSE /\ iterations < MaxIterations
                /\ base_manuscript_siglum' = WithoutSuffix(base_manuscript_siglum, suffix)
                /\ iterations' = iterations + 1
                /\ UNCHANGED <<pc, returned>>
    /\ UNCHANGED <<callee, arg_siglum, arg_regex, old_string, extracted_prefixes, err>>
    /\ UNCHANGED <<grammar_vars, reading_vars, unit_vars, collation_vars>>

\* common.split_versional_witnesses lines 175-183; regex.match on the regex
\* None raises AttributeError
SplitPass ==
    /\ pc = "loop"
    /\ callee = "split_versional_witnesses"
    /\ IF arg_regex \notin VersionalRegexNames
       THEN /\ pc' = "raised"
            /\ err' = "AttributeError"
            /\ UNCHANGED <<old_string, extracted_prefixes, iterations, returned>>
       ELSE LET prefix == VersionalMatch(arg_regex, old_string)
            IN  IF prefix = ""
                THEN /\ pc' = "returned"
                     /\ returned' = Some(extracted_prefixes)
                     /\ UNCHANGED <<old_string, extracted_prefixes, iterations, err>>
                ELSE /\ iterations < MaxIterations
                     /\ old_string' = WithoutPrefix(old_string, prefix)
                     /\ extracted_prefixes' = Append(extracted_prefixes, prefix)
                     /\ iterations' = iterations + 1
                     /\ UNCHANGED <<pc, returned, err>>
    /\ UNCHANGED <<callee, arg_siglum, arg_regex, base_manuscript_siglum>>
    /\ UNCHANGED <<grammar_vars, reading_vars, unit_vars, collation_vars>>

LoopNext ==
    \/ CollationStripPass
    \/ StripPass
    \/ SplitPass

SpecLoop == LoopInit /\ [][LoopNext]_vars

\* a pass of a loop that is enabled is taken: the program runs on
SpecLoopFair == SpecLoop /\ WF_vars(LoopNext)

(***************************************************************************)
(* Properties of the siglum grammar (checked under SpecGrammar)            *)
(***************************************************************************)
\* C1: cleanup is idempotent: cleaning a cleaned witness string gives the same
\* string again.  After the second pass wit_str holds the result of the first.
C1_CleanupIdempotent ==
    (pc = "returned" /\ op = "cleanup" /\ passes = 2) => result = wit_str

\* The sigla of a witness string as the spec's W(s1,...,sn) reads them: spaces
\* separate sigla, except inside a parenthetical suffix list.
RECURSIVE SiglaWithLists(_, _, _, _)
SiglaWithLists(s, i, cur, depth) ==
    IF i > Len(s) THEN (IF cur = "" THEN <<>> ELSE <<cur>>)
    ELSE IF Ch(s, i) = " " /\ depth = 0
         THEN (IF cur = "" THEN <<>> ELSE <<cur>>) \o SiglaWithLists(s, i + 1, "", 0)
         ELSE SiglaWithLists(s, i + 1, cur \o Ch(s, i),
                  IF Ch(s, i) = "(" THEN depth + 1
                  ELSE IF Ch(s, i) = ")" /\ depth > 0 THEN depth - 1 ELSE depth)

CountOf(s, c) == Cardinality({i \in 1..Len(s) : Ch(s, i) = c})

HasNoList(u) == CountOf(u, "(") = 0 /\ CountOf(u, ")") = 0

\* u is W(s1,...,sn): one list, closed at the end, after a non-empty W
HasOneList(u) ==
    /\ CountOf(u, "(") = 1 /\ CountOf(u, ")") = 1
    /\ EndsWith(u, ")")
    /\ IndexFrom(u, "(", 1) > 1

\* W(s1,...,sn) as the sigla Ws1 ... Wsn
ListExpansion(u) ==
    LET k == IndexFrom(u, "(", 1)
        W == SubSeq(u, 1, k - 1)
        list == SplitOn(Replace(SubSeq(u, k + 1, Len(u) - 1), " ", ""), ",")
    IN  [n \in 1..Len(list) |-> W \o list[n]]

RECURSIVE ExpectedExpansion(_)
ExpectedExpansion(units) ==
    IF Len(units) = 0 THEN <<>>
    ELSE (IF HasNoList(units[1]) THEN <<units[1]>> ELSE ListExpansion(units[1]))
         \o ExpectedExpansion(Tail(units))

\* C3: every siglum W(s1,...,sn) of the witness string is replaced by the sigla
\* Ws1 ... Wsn and every siglum without parentheses is left as it was.
C3_ParentheticalExpansion ==
    LET units == SiglaWithLists(wit_str, 1, "", 0)
    IN  (/\ pc = "returned"
         /\ op = "expand_parenthetical_suffixes"
         /\ \A k \in 1..Len(units) : HasNoList(units[k]) \/ HasOneList(units[k]))
        => Split(result) = ExpectedExpansion(units)

\* The sigla X:t the spec expects for the bare tokens of a versional block: a
\* version-start token opens the context X (the text before its colon, or the
\* whole token), and every bare token t after it is expected as X:t.
RECURSIVE CarriedSigla(_, _)
CarriedSigla(wits, X) ==
    IF Len(wits) = 0 THEN {}
    ELSE IF version_start_pattern(wits[1])
         THEN CarriedSigla(Tail(wits), SplitOn(wits[1], ":")[1])
         ELSE (IF X = "" THEN {} ELSE {X \o ":" \o wits[1]})
              \cup CarriedSigla(Tail(wits), X)

\* C4: in versional normalization every bare token t after a version-start
\* token with prefix X appears in the output as X:t.
C4_VersionalCarryOver ==
    (/\ op = "normalize_versional_sigla"
     /\ CarriedSigla(Split(wit_str), "") # {})
    => /\ pc = "returned"
       /\ CarriedSigla(Split(wit_str), "") \subseteq Range(Split(result))

\* the tokens of a witness list that precede its first version-start token
LeadingTokens(wits) ==
    LET starts == {i \in 1..Len(wits) : version_start_pattern(wits[i])}
        first == IF starts = {} THEN Len(wits) + 1
                 ELSE CHOOSE i \in starts : \A j \in starts : i <= j
    IN  SubSeq(wits, 1, first - 1)

\* C19: versional normalization leaves the tokens before the first
\* version-start token as they are: they are the first tokens of the output,
\* in the same order and with the same text.
C19_PrefixUntouched ==
    (pc = "returned" /\ op = "normalize_versional_sigla")
    => LET pre == LeadingTokens(Split(wit_str))
           out == Split(result)
       IN  /\ Len(out) >= Len(pre)
           /\ SubSeq(out, 1, Len(pre)) = pre

\* the version-start tokens of a witness string that contain a colon
ColonTokens(s) ==
    {t \in Range(Split(s)) : version_start_pattern(t) /\ Contains(t, ":")}

\* C20: versional normalization returns for every witness string, whatever the
\* prefixes of its version-start tokens, and every version-start token with a
\* colon is a token of the output, unchanged.
C20_ColonTokenUnchanged ==
    (op = "normalize_versional_sigla" /\ ColonTokens(wit_str) # {})
    => /\ pc = "returned"
       /\ ColonTokens(wit_str) \subseteq Range(Split(result))

(***************************************************************************)
(* Properties of the reading model (checked under SpecReading)             *)
(***************************************************************************)
\* The fields of a target list read in one scan from the left: a marker _f is
\* skipped, a slash ends the field.
RECURSIVE TargetFields(_, _, _)
TargetFields(s, i, cur) ==
    IF i > Len(s) THEN <<cur>>
    ELSE IF StartsWithAt(s, "_f", i) THEN TargetFields(s, i + 2, cur)
    ELSE IF Ch(s, i) = "/" THEN <<cur>> \o TargetFields(s, i + 1, "")
    ELSE TargetFields(s, i + 1, cur \o Ch(s, i))

\* C9: for a parsed reading of type ambiguous, targets is the raw reading
\* attribute without its _f markers, split on "/", in order.
C9_AmbiguousTargets ==
    (pc = "parsed" /\ reading.type = Some("ambiguous"))
    => /\ HasAttr(segment_reading, "reading")
       /\ reading.targets = TargetFields(segment_reading.attrs["reading"], 1, "")

\* an ambiguous reading with the raw target field a_f/b has been parsed
C9_Witness ==
    /\ pc = "parsed"
    /\ reading.type = Some("ambiguous")
    /\ HasAttr(segment_reading, "reading")
    /\ segment_reading.attrs["reading"] = "a_f/b"
    /\ reading.targets = <<"a", "b">>

ReadingTypes ==
    {None} \cup {Some(t) : t \in {"defective", "orthographic", "subreading", "ambiguous",
                                  "overlap", "unclear", "lac"}}

\* letters, then the letter X, then digits or nothing
HasShape(l, X) ==
    \E k \in 2..Len(l) :
        /\ Ch(l, k) = X
        /\ \A i \in 1..(k - 1) : Ch(l, i) \in LowerCase
        /\ \A i \in (k + 1)..Len(l) : Ch(l, i) \in Digits

\* the type a label gives once markers and surrounding whitespace are off
TypeOfLabel(raw) ==
    LET l == Strip(Replace(raw, diamond, ""))
    IN  IF HasShape(l, "f") THEN Some("defective")
        ELSE IF HasShape(l, "o") THEN Some("orthographic")
        ELSE IF l = "zu" THEN Some("overlap")
        ELSE IF l = "zw" THEN Some("ambiguous")
        ELSE IF l = "zz" THEN Some("lac")
        ELSE None

C17_SubreadingPolicy ==
    pc = "parsed"
    => /\ (reading.type = Some("subreading"))
          <=> /\ singular_to_subreading
              /\ TypeOfLabel(segment_reading.attrs["label"]) = None
              /\ Len(reading.wits) <= 1
       /\ TypeOfLabel(segment_reading.attrs["label"]) # None
          => reading.type = TypeOfLabel(segment_reading.attrs["label"])

\* a reading of no type with the one witness 01 has been parsed with the policy
\* on and is a subreading
C17_Witness ==
    /\ pc = "parsed"
    /\ singular_to_subreading
    /\ segment_reading.attrs["label"] = "a"
    /\ reading.wits = <<"01">>
    /\ reading.type = Some("subreading")

\* C14: parse_xml on a segmentReading element without a witnesses attribute
\* (its other attributes in place) does not end in an exception that nothing
\* handles.
C14_MissingWitnessesReported ==
    (~HasAttr(segment_reading, "witnesses") /\ HasAttr(segment_reading, "reading"))
    => pc # "raised"

(***************************************************************************)
(* Properties of the rendering (checked under SpecRender)                  *)
(***************************************************************************)
\* a text matches a range of code points when it starts with a character of
\* the range
Matches(text, range) == Len(text) >= 1 /\ text[1] \in range

Greek == 945..969
Latin == 97..122
Syriac == 1808..1871
Coptic == (994..1007) \cup (11392..11502)

\* C18: the element of a Reading with a text has that text, and its language
\* attribute follows the first of the ranges Greek, Latin, Syriac, Coptic that
\* the text matches: none for Greek, lat, syr, cop for the others, none when no
\* range matches; the element of a Reading without text has neither.
C18_LanguageTag ==
    pc = "rendered"
    => IF reading.text = None
       THEN ~HasAttr(tei, "xml:lang") /\ tei.text = None
       ELSE /\ tei.text = reading.text
            /\ LET text == reading.text[1]
               IN  IF Matches(text, Greek) THEN ~HasAttr(tei, "xml:lang")
                   ELSE IF Matches(text, Latin)
                   THEN HasAttr(tei, "xml:lang") /\ tei.attrs["xml:lang"] = "lat"
                   ELSE IF Matches(text, Syriac)
                   THEN HasAttr(tei, "xml:lang") /\ tei.attrs["xml:lang"] = "syr"
                   ELSE IF Matches(text, Coptic)
                   THEN HasAttr(tei, "xml:lang") /\ tei.attrs["xml:lang"] = "cop"
                   ELSE ~HasAttr(tei, "xml:lang")

\* a Reading with a Syriac text has been rendered with the attribute syr
C18_Witness ==
    /\ pc = "rendered"
    /\ reading.text = Some(<<1808, 1810>>)
    /\ HasAttr(tei, "xml:lang")
    /\ tei.attrs["xml:lang"] = "syr"
    /\ tei.text = reading.text

(***************************************************************************)
(* Properties of the variation units (checked under SpecUnit)              *)
(***************************************************************************)
\* C15: the ID of a unit constructed with a locator is the locator alone when no
\* offset is given, and the locator, "/" and the offset when one is given,
\* with nothing after it.
C15_UnitId ==
    (pc # "new_unit" /\ loc # None)
    => /\ pc = "constructed"
       /\ unit.id = IF app_from = None THEN loc
                    ELSE Some(loc[1] \o "/" \o app_from[1])

(***************************************************************************)
(* Properties of the collation runs (checked under Spec)                   *)
(***************************************************************************)
\* the segments both passes of cleanup_witness_lists are through, up to the
\* moment the cleanup of the whole tree is over
Cleaned(s) ==
    \/ pc \in {"pass1", "pass2"} /\ s < seg
    \/ pc = "parse_witnesses"

\* the members of a group list that are not covered, in the order of the list
Members(list, covered) ==
    LET NotCovered(wit) == wit \notin covered
    IN  SelectSeq(list, NotCovered)

\* the covered set of a unit: the base sigla of the manuscripts that the
\* cleaned witness lists of its readings cite
UnitCovered(s) ==
    UNION {CoveredManuscripts(Split(cleanup(vmr[s][r]))) : r \in 1..Len(vmr[s])}

\* a witness list with the members in the place of every group token
RECURSIVE WithGroup(_, _)
WithGroup(wit_list, members) ==
    IF wit_list = <<>> THEN <<>>
    ELSE (IF Head(wit_list) = "Byz" THEN members ELSE <<Head(wit_list)>>)
             \o WithGroup(Tail(wit_list), members)

Ids(list) == {list[i].id : i \in 1..Len(list)}

\* the place of a siglum in the witness list
Place(id) == CHOOSE i \in 1..Len(witnesses) : witnesses[i].id = id

\* C5: no two entries of the witness list have the same siglum, and the scan of
\* a siglum that is already in the list leaves the list, types included, as it is.
C5_RegistryUnique ==
    /\ [](Cardinality(Ids(witnesses)) = Len(witnesses))
    /\ [][(pc = "wit" /\ Head(scan_wits) \in Ids(witnesses)) => witnesses' = witnesses]_vars

\* the Byzantine witnesses 025 and 1 and the witness 88 of the scan were cited
\* again (1 and 88 with a suffix that is ignored), and each is in the list once
\* with the type of its registration
C5_Witness ==
    /\ pc = "finalized"
    /\ vmr = <<<<"025", "69C2 88 69C1 1* 01 88T">>>>
    /\ \A id \in {"025", "1", "88"} :
           Cardinality({i \in 1..Len(witnesses) : witnesses[i].id = id}) = 1
    /\ witnesses[Place("025")].type = Some("majuscule")
    /\ witnesses[Place("1")].type = Some("minuscule")
    /\ witnesses[Place("88")].type = Some("minuscule")
    /\ {"1*", "88T"} \cap Ids(witnesses) = {}

\* the language prefix of a versional siglum
Language(id) == SplitOn(id, ":")[1]

\* the rank of a type; a version has the rank of its language
TypeRank(type, id) ==
    CASE type = "papyrus" -> 1
      [] type = "majuscule" -> 2
      [] type = "minuscule" -> 3
      [] type = "lectionary" -> 4
      [] type = "version" -> 5 + Index(version_prefixes, Language(id))
      [] type = "father" -> 5 + Len(version_prefixes)
      [] OTHER -> 0

\* the six types the ranks are for
RankedTypes ==
    {Some(t) : t \in {"papyrus", "majuscule", "minuscule", "lectionary", "version", "father"}}

\* the number in a siglum: its first run of digits, -1 when it has none
Number(id) ==
    LET digits == {i \in 1..Len(id) : IsDigitAt(id, i)}
        first == CHOOSE i \in digits : \A j \in digits : i <= j
    IN  IF digits = {} THEN -1 ELSE ToInt(SubSeq(id, first, DigitRunEnd(id, first)))

\* C6: in the sorted list the types follow their ranks (papyrus, majuscule,
\* minuscule, lectionary, versions in the order of the language prefixes,
\* father), and the numbers ascend within one rank.
C6_TypeRankOrder ==
    pc = "finalized" =>
        \A i, j \in 1..Len(witnesses) :
            LET a == witnesses[i]
                b == witnesses[j]
            IN  (i < j /\ a.type \in RankedTypes /\ b.type \in RankedTypes) =>
                    /\ TypeRank(a.type[1], a.id) <= TypeRank(b.type[1], b.id)
                    /\ (/\ TypeRank(a.type[1], a.id) = TypeRank(b.type[1], b.id)
                        /\ Number(a.id) >= 0
                        /\ Number(b.id) >= 0) => Number(a.id) <= Number(b.id)

\* witnesses of all six types, registered out of order, stand in rank order
C6_Witness ==
    /\ pc = "finalized"
    /\ {"P45", "P57", "014", "1", "L23", "L:5", "L:50", "L:V", "K:S", "Or"}
           \subseteq Ids(witnesses)
    /\ Place("P45") < Place("P57")
    /\ Place("P57") < Place("014")
    /\ Place("014") < Place("1")
    /\ Place("1") < Place("L23")
    /\ Place("L23") < Place("L:5")
    /\ Place("L:5") < Place("L:50")
    /\ Place("L:50") < Place("L:V")
    /\ Place("L:V") < Place("K:S")
    /\ Place("K:S") < Place("Or")

\* the type a siglum has by its shape
ShapeType(id) ==
    IF papyrus_pattern(id) THEN "papyrus"
    ELSE IF majuscule_pattern(id) THEN "majuscule"
    ELSE IF minuscule_pattern(id) THEN "minuscule"
    ELSE IF lectionary_pattern(id) THEN "lectionary"
    ELSE IF version_start_pattern(id) THEN "version"
    ELSE "father"

\* the rank of a witness, a corrector ranked by the shape of its siglum
WitnessRank(w) ==
    IF w.type = Some("corrector") THEN TypeRank(ShapeType(w.id), w.id)
    ELSE IF w.type \in RankedTypes THEN TypeRank(w.type[1], w.id)
    ELSE 0

\* a corrector stands before every witness of the type of its shape that has a
\* larger number
BeforeLargerNumbers(c) ==
    \A j \in 1..Len(witnesses) :
        (/\ witnesses[j].type # Some("corrector")
         /\ WitnessRank(witnesses[j]) = WitnessRank(witnesses[c])
         /\ Number(witnesses[j].id) > Number(witnesses[c].id)) => c < j

\* C7 as stated: a corrector of manuscript N comes directly after plain N and
\* before every witness of that type with a larger number.
C7_DirectlyAfterPlain ==
    pc = "finalized" =>
        \A c \in 1..Len(witnesses) :
            witnesses[c].type = Some("corrector") =>
                /\ BeforeLargerNumbers(c)
                /\ \A j \in 1..Len(witnesses) :
                       witnesses[j].id = get_base_manuscript_siglum(witnesses[c].id, "all")
                           => c = j + 1

\* C7: a corrector of manuscript N comes after plain N, with nothing but
\* witnesses of the same rank and number N between them, and before every
\* witness of that type with a larger number.
C7_CorrectorWithBase ==
    pc = "finalized" =>
        \A c \in 1..Len(witnesses) :
            witnesses[c].type = Some("corrector") =>
                /\ BeforeLargerNumbers(c)
                /\ \A j \in 1..Len(witnesses) :
                       witnesses[j].id = get_base_manuscript_siglum(witnesses[c].id, "all") =>
                           /\ j < c
                           /\ \A k \in (j + 1)..(c - 1) :
                                  /\ WitnessRank(witnesses[k]) = WitnessRank(witnesses[c])
                                  /\ Number(witnesses[k].id) = Number(witnesses[c].id)

\* two correctors of minuscule 69 stand between 69 and the next minuscule
C7_Witness ==
    /\ pc = "finalized"
    /\ {"69", "69C1", "69C2", "88"} \subseteq Ids(witnesses)
    /\ witnesses[Place("69C2")].type = Some("corrector")
    /\ Place("69C1") = Place("69") + 1
    /\ Place("69C2") = Place("69") + 2
    /\ Place("88") = Place("69") + 3

\* C8: in the finalized registry any two witnesses have keys of which exactly
\* one is the smaller, witnesses with different sigla have different keys, and
\* sorting the list again leaves its order as it is.
C8_KeyTotalOrder ==
    pc = "finalized" =>
        /\ \A i, j \in 1..Len(witnesses) :
               witnesses[i].id # witnesses[j].id =>
                   /\ witnesses[i].key # witnesses[j].key
                   /\ WitnessLess(witnesses[i], witnesses[j])
                          # WitnessLess(witnesses[j], witnesses[i])
        /\ SortWitnessList(witnesses) = witnesses

\* two witnesses agree in rank and number, so that the leftover string decides
C8_Witness ==
    /\ pc = "finalized"
    /\ \E i, j \in 1..Len(witnesses) :
           /\ i < j
           /\ Len(witnesses[i].key) = 3
           /\ Len(witnesses[j].key) = 3
           /\ witnesses[i].key[1] = witnesses[j].key[1]
           /\ witnesses[i].key[2] = witnesses[j].key[2]
           /\ witnesses[i].key[3] # witnesses[j].key[3]

\* the seven types of a witness
WitnessTypes ==
    {Some(t) : t \in {"papyrus", "majuscule", "minuscule", "lectionary",
                      "corrector", "version", "father"}}

\* the class of a token: the first of the shapes P+digits, 0+digits, leading
\* nonzero digit, L+digits, version start that it has, father when it has none
FirstMatch(t) ==
    IF Len(t) >= 2 /\ Ch(t, 1) = "P" /\ Ch(t, 2) \in Digits THEN "papyrus"
    ELSE IF Len(t) >= 2 /\ Ch(t, 1) = "0" /\ Ch(t, 2) \in Digits THEN "majuscule"
    ELSE IF Len(t) >= 1 /\ Ch(t, 1) \in Digits \ {"0"} THEN "minuscule"
    ELSE IF Len(t) >= 2 /\ Ch(t, 1) = "L" /\ Ch(t, 2) \in Digits THEN "lectionary"
    ELSE IF \E p \in Range(version_prefixes) :
                t = p \/ StartsWith(t, p \o ":") \/ StartsWith(t, p \o ">") THEN "version"
    ELSE "father"

\* the token the scan is at falls to the father class and is not one of the
\* ignored father tokens
UnmatchedToken(t) ==
    /\ FirstMatch(t) = "father"
    /\ t # "Byz"
    /\ ~EndsWith(t, "T") /\ ~EndsWith(t, "ms") /\ ~EndsWith(t, "mss")

InputTokens ==
    UNION {UNION {Range(Split(vmr[s][r])) : r \in 1..Len(vmr[s])} : s \in 1..Len(vmr)}

\* a version token that ends in ms or mss, or a father token that ends in T, ms
\* or mss
IgnoredToken(t) ==
    \/ FirstMatch(t) = "version" /\ (EndsWith(t, "ms") \/ EndsWith(t, "mss"))
    \/ FirstMatch(t) = "father" /\ (EndsWith(t, "T") \/ EndsWith(t, "ms") \/ EndsWith(t, "mss"))

\* the version or father an ignored token names: the token without its suffix
Named(t) ==
    IF EndsWith(t, "mss") THEN SubSeq(t, 1, Len(t) - 3)
    ELSE IF EndsWith(t, "ms") THEN SubSeq(t, 1, Len(t) - 2)
    ELSE SubSeq(t, 1, Len(t) - 1)

\* C13: an ignored token of the input adds no entry to the registry: the token
\* is no siglum of the registry, and the version or father it names is one only
\* if it is itself a token of the input.
C13_IgnoredNeverRegistered ==
    pc = "finalized"
    => \A t \in InputTokens :
           IgnoredToken(t)
           => /\ t \notin Ids(witnesses)
              /\ Named(t) \in Ids(witnesses) => Named(t) \in InputTokens

\* the siglum starts with digits after an optional P, L or L:
LooksLikeManuscript(id) ==
    \/ IsDigitAt(id, 1)
    \/ Len(id) >= 2 /\ Ch(id, 1) \in {"P", "L"} /\ IsDigitAt(id, 2)
    \/ StartsWith(id, "L:") /\ IsDigitAt(id, 3)

\* one of the corrector letters is somewhere in the siglum
HasCorrectorLetter(id) == \E k \in 1..Len(id) : Ch(id, k) \in {"C", "A", "K"}

\* the four classes of Greek manuscripts
ManuscriptClasses == {"papyrus", "majuscule", "minuscule", "lectionary"}

\* the scan adds a witness of type corrector for the token it is at
AddsCorrector ==
    /\ pc = "wit"
    /\ Len(witnesses') > Len(witnesses)
    /\ witnesses'[Len(witnesses')].type = Some("corrector")

\* C22 as stated: a witness is registered as a corrector only if its token was
\* classified papyrus, majuscule, minuscule or lectionary; a token classified
\* as version or father is never registered as a corrector.
C22_OnlyManuscriptCorrectors ==
    [][AddsCorrector => FirstMatch(Head(scan_wits)) \in ManuscriptClasses]_vars

\* C22: a witness is registered as a corrector exactly when its siglum, the
\* token without its ignored suffixes, starts with digits after an optional P,
\* L or L: and has a corrector letter C, A or K in it; the token is of any
\* class, a version token L:<digits> included, and a version or father token
\* that does not start in this way is never registered as a corrector.
C22_CorrectorsLookLikeManuscripts ==
    /\ [](\A i \in 1..Len(witnesses) :
              witnesses[i].type = Some("corrector")
                  => LooksLikeManuscript(witnesses[i].id) /\ HasCorrectorLetter(witnesses[i].id))
    /\ [][(pc = "wit" /\ Len(witnesses') > Len(witnesses))
            => LET w == witnesses'[Len(witnesses')]
               IN  /\ w.type = Some("corrector")
                       <=> LooksLikeManuscript(w.id) /\ HasCorrectorLetter(w.id)
                   /\ w.type = Some("corrector")
                       => \/ FirstMatch(Head(scan_wits)) \in ManuscriptClasses
                          \/ /\ FirstMatch(Head(scan_wits)) = "version"
                             /\ StartsWith(Head(scan_wits), "L:")
                          \/ /\ FirstMatch(Head(scan_wits)) = "father"
                             /\ StartsWith(Head(scan_wits), "0")]_vars

\* the sorted registry has the corrector 69C2 of a minuscule and the corrector
\* L:5C that was registered for a version token
C22_Witness ==
    /\ pc = "finalized"
    /\ \E i, j \in 1..Len(witnesses) :
           /\ witnesses[i].id = "69C2" /\ witnesses[i].type = Some("corrector")
           /\ witnesses[j].id = "L:5C" /\ witnesses[j].type = Some("corrector")
           /\ FirstMatch("L:5C") = "version"

\* the positions of the run in which variation units are assembled
AssemblyPcs == {"segment", "parsed"}

\* the witness list is in the order of the sort
Sorted ==
    \A i \in 1..(Len(witnesses) - 1) : WitnessLess(witnesses[i], witnesses[i + 1])

FinalizedPcs == {"finalized", "segment", "parsed"}

\* C24: once the registry is finalized the dictionary maps the siglum at each
\* position of the sorted list to that position (counted from 0) and has one
\* key for each entry of the list and no other; and a siglum that is looked up
\* before the sort stands for the same witness after it.
C24_MapAgreesWithList ==
    /\ [](pc \in FinalizedPcs
            => /\ \A i \in 1..Len(witnesses) :
                      /\ witnesses[i].id \in DOMAIN witness_inds_by_id
                      /\ witness_inds_by_id[witnesses[i].id] = i - 1
               /\ DOMAIN witness_inds_by_id = {witnesses[i].id : i \in 1..Len(witnesses)}
               /\ Cardinality(DOMAIN witness_inds_by_id) = Len(witnesses))
    /\ [][(pc = "sort")
            => \A id \in DOMAIN witness_inds_by_id :
                   /\ id \in DOMAIN witness_inds_by_id'
                   /\ witnesses'[witness_inds_by_id'[id] + 1]
                          = witnesses[witness_inds_by_id[id] + 1]]_vars

\* the majuscule 01, registered by the scan after the Byzantine witnesses, has
\* moved in front of the Byzantine minuscules, and the dictionary has its new
\* index
C24_Witness ==
    /\ pc = "finalized"
    /\ "01" \in DOMAIN witness_inds_by_id
    /\ witness_inds_by_id["01"] < Len(byz_witnesses) - 1
    /\ witnesses[witness_inds_by_id["01"] + 1].id = "01"
    /\ witnesses[Len(byz_witnesses)].id # byz_witnesses[Len(byz_witnesses)]

\* the siglum and what is left of it after one, two, ... suffixes are stripped
\* with no regard to the registry
RECURSIVE StrippedForms(_, _)
StrippedForms(siglum, regex) ==
    IF SuffixMatch(regex, siglum) = "" THEN <<siglum>>
    ELSE <<siglum>> \o StrippedForms(
             SubSeq(siglum, 1, Len(siglum) - Len(SuffixMatch(regex, siglum))), regex)

\* the tokens of the cleaned readings of a unit, before the group is expanded
UnitTokens(s) == UNION {Range(Split(cleanup(vmr[s][r]))) : r \in 1..Len(vmr[s])}

\* the sigla of the cleaned, group-expanded witnesses attributes of the tree
CitedTokens ==
    UNION {UNION {Range(Split(xml_tree[s][r])) : r \in 1..Len(xml_tree[s])} :
              s \in 1..Len(xml_tree)}

\* some reading cites a token that is the siglum, or is the siglum with
\* ignored suffixes after it
Cited(id) == \E t \in CitedTokens : id \in Range(StrippedForms(t, "ignored"))

C26_ReferentialIntegrity ==
    /\ pc \in FinalizedPcs
           => \A t \in CitedTokens \ {"Byz"} :
                  Collation_get_base_manuscript_siglum(t, "ignored", witness_inds_by_id)
                      \in DOMAIN witness_inds_by_id
    /\ err # "KeyError"

\* how often a siglum stands in a witness list
TokenCount(wit_list, id) == Cardinality({i \in 1..Len(wit_list) : wit_list[i] = id})

\* the token is the manuscript siglum followed by one corrector suffix
CorrectorOf(t, id) ==
    /\ Len(t) > Len(id)
    /\ StartsWith(t, id)
    /\ Ch(t, Len(id) + 1) \in {"C", "A", "K"}
    /\ \A j \in (Len(id) + 2)..Len(t) : Ch(t, j) \in Digits

\* some token is the manuscript siglum, alone or with ignored suffixes only
CitedPlain(tokens, id) == \E t \in tokens : id \in Range(StrippedForms(t, "ignored"))

\* some token is a corrector of the manuscript, and none cites it plainly
CitedAsCorrectorOnly(tokens, id) ==
    /\ \E t \in tokens : CorrectorOf(t, id)
    /\ ~CitedPlain(tokens, id)

\* the segment that parse_segments has just been through
LastSegment == IF pc = "parsed" THEN Len(xml_tree) ELSE seg - 1

\* C27: correctors do not count as coverage. Once cleanup_witness_lists is
\* through, the expansion of the group token in a reading has added a member
\* that the unit cites through a corrector siglum only, and has not added a
\* member that the unit cites alone or with ignored suffixes; and the list that
\* get_byz_witnesses returns for a segment has a member that the segment cites
\* through a corrector only, and lacks a member cited alone or with ignored
\* suffixes.
C27_CorrectorsDoNotCover ==
    /\ pc = "parse_witnesses"
           => \A s \in 1..Len(vmr) : \A r \in 1..Len(vmr[s]) :
                  LET cited == Split(cleanup(vmr[s][r]))
                      expanded == Split(xml_tree[s][r])
                      tokens == UnitTokens(s)
                  IN  "Byz" \in Range(cited)
                      => \A id \in Range(byz_witnesses) :
                             LET added == TokenCount(expanded, id) > TokenCount(cited, id)
                             IN  /\ CitedAsCorrectorOnly(tokens, id) => added
                                 /\ CitedPlain(tokens, id) => ~added
    /\ (pc \in AssemblyPcs /\ LastSegment >= 1)
           => LET tokens == UNION {Range(Split(xml_tree[LastSegment][r])) :
                                       r \in 1..Len(xml_tree[LastSegment])}
              IN  \A id \in Range(byz_witnesses) :
                      /\ CitedAsCorrectorOnly(tokens, id)
                             => id \in Range(segment_byz_witnesses)
                      /\ CitedPlain(tokens, id) => id \notin Range(segment_byz_witnesses)

\* a unit cites 014 and the group in one reading and 025 through the corrector
\* 025C only in the other: the expansion has 025 and has no second 014
C27_Witness ==
    /\ pc = "parse_witnesses"
    /\ vmr = <<<<"014 Byz", "Or OrT Orms Ormss 0 P45 025C L:50 L:5 K:Sms S:Pmss">>>>
    /\ CitedAsCorrectorOnly(UnitTokens(1), "025")
    /\ TokenCount(Split(xml_tree[1][1]), "025") = 1
    /\ TokenCount(Split(xml_tree[1][1]), "014") = 1

\* a segment cites 69 through the correctors 69C2 and 69C1 only, and 1 and 88
\* with ignored suffixes: the list of get_byz_witnesses has 69 and lacks 1,
\* and the correctors are not in the covered set
C27_WitnessSegment ==
    /\ pc = "parsed"
    /\ vmr = <<<<"69C2 88 69C1 1* 01 88T">>>>
    /\ "69" \in Range(segment_byz_witnesses)
    /\ "1" \notin Range(segment_byz_witnesses)
    /\ covered_witnesses = {"1", "01", "88"}

\* a witness list without the group token
WithoutGroup(wit_list) ==
    LET NotGroup(wit) == wit # "Byz"
    IN  SelectSeq(wit_list, NotGroup)

\* C28: once cleanup_witness_lists is through, no witnesses attribute contains
\* Byz; the replacement of line 313 with an empty list takes the token away and
\* leaves the other tokens of the reading as they are; a reading that did not
\* have the token Byz in its witness list is left as the first pass made it;
\* and the expansion adds to a reading no siglum that a cleaned reading of the
\* unit cites.
C28_GroupTokenExpanded ==
    pc = "parse_witnesses"
    => \A s \in 1..Len(vmr) : \A r \in 1..Len(vmr[s]) :
           LET witnesses_string == cleanup(vmr[s][r])
               cited == Split(witnesses_string)
               expanded == Split(xml_tree[s][r])
               tokens == UnitTokens(s)
           IN  /\ ~Contains(xml_tree[s][r], "Byz")
               /\ Split(Replace(witnesses_string, "Byz", Join(<<>>, " ")))
                      = WithoutGroup(cited)
               /\ "Byz" \notin Range(cited) => xml_tree[s][r] = witnesses_string
               /\ \A id \in Range(expanded) :
                      TokenCount(expanded, id) > TokenCount(cited, id) => id \notin tokens

\* a dictionary with the sigla of the Byzantine list as its keys
ByzKeys == [id \in Range(byz_witnesses) |-> 0]

\* the siglum and the type of the Byzantine witnesses
ByzEntries == {<<id, Some(ShapeType(id))>> : id \in Range(byz_witnesses)}

\* the siglum and type under which a token is registered when the registry
\* holds the Byzantine witnesses and nothing else
EntryOf(t) == <<Registration(t, ByzKeys).id, Registration(t, ByzKeys).type>>

\* the registry as a function of the set of tokens that the readings cite,
\* with no regard to the order of the readings or of the tokens
EntriesOf(tokens) ==
    ByzEntries \cup {EntryOf(t) : t \in {u \in tokens : Registration(u, ByzKeys).add}}

\* C29: the registry does not depend on the order of the input: when the scan
\* is over the (siglum, type) entries of the witness list are those that the
\* set of the cited tokens gives, each once, and the finalized list is these
\* entries in the strict order of their keys.
C29_OrderIndependent ==
    /\ pc \in {"sort"} \cup FinalizedPcs
           => /\ {<<witnesses[i].id, witnesses[i].type>> : i \in 1..Len(witnesses)}
                      = EntriesOf(CitedTokens)
              /\ Len(witnesses) = Cardinality(EntriesOf(CitedTokens))
    /\ pc \in FinalizedPcs => Sorted

\* the same two readings in the two orders: in the one scanned here 88T and 1*
\* come before L:5C, and the finalized registry has 88 and 1 before L:5C
C29_Witness ==
    /\ pc = "finalized"
    /\ vmr = <<<<"69C2 88 69C1 1* 01 88T">>, <<"K:S [Byz] L:V 5C">>>>
    /\ {"69C2", "69C1", "88", "01", "L:5C", "K:S", "L:V"} \subseteq Ids(witnesses)
    /\ Place("01") < Place("1")
    /\ Place("1") < Place("69C1")
    /\ Place("88") < Place("L:5C")
    /\ Len(witnesses) = Len(byz_witnesses) + 8

(***************************************************************************)
(* Properties of the loops (checked under SpecLoop and SpecLoopFair)       *)
(***************************************************************************)
\* C21: the base siglum returned for a token is a prefix of the token that is
\* registered or has no suffix of the pattern; a registered token is returned
\* as it is; and the result is the first of the stripped forms of the token
\* that is registered, the last form when none is.
C21_BaseSiglum ==
    (pc = "returned" /\ callee \in {"Collation.get_base_manuscript_siglum",
                                     "get_base_manuscript_siglum"})
    => LET r == returned[1]
           forms == StrippedForms(arg_siglum, arg_regex)
           registered == Ids(witnesses)
       IN  /\ SubSeq(arg_siglum, 1, Len(r)) = r
           /\ r \in registered \/ SuffixMatch(arg_regex, r) = ""
           /\ arg_siglum \in registered => r = arg_siglum
           /\ \E k \in 1..Len(forms) :
                  /\ forms[k] = r
                  /\ \A j \in 1..(k - 1) : forms[j] \notin registered
                  /\ k < Len(forms) => r \in registered

\* the stripping of 69C2*f1 has stopped at the registered corrector 69C2, which
\* ends in a suffix of the pattern
C21_Witness ==
    /\ pc = "returned"
    /\ callee = "Collation.get_base_manuscript_siglum"
    /\ arg_siglum = "69C2*f1"
    /\ arg_regex = "all"
    /\ "69C2" \in Ids(witnesses)
    /\ returned = Some("69C2")

\* the string a loop works on
LoopString == IF callee = "split_versional_witnesses" THEN old_string ELSE base_manuscript_siglum

\* C30: every pass through a stripping loop that goes on makes the string
\* shorter, there are at most as many such passes as the input has characters,
\* and every loop comes to an end.
C30_LoopsTerminate ==
    /\ [][(pc = "loop" /\ pc' = "loop") => Len(LoopString') < Len(LoopString)]_vars
    /\ [](iterations <= Len(arg_siglum))
    /\ <>(pc # "loop")

\* the splitting of SBM has returned after three passes, one for each character
C30_Witness ==
    /\ pc = "returned"
    /\ callee = "split_versional_witnesses"
    /\ arg_siglum = "SBM"
    /\ iterations = 3
    /\ returned = Some(<<"S", "B", "M">>)

====
